---- MODULE Spec2Model ----
(***************************************************************************)
(* Model of the notes access facade (src/lib/api.ts) and of the session    *)
(* manager (src/contexts/AuthContext.tsx) of the note-taking application,  *)
(* together with the parts of the hosted platform they talk to: the        *)
(* current session held by the platform client, the notifications it       *)
(* pushes, and the row-secured notes table of the SQL migration.           *)
(*                                                                         *)
(* Spec is the facade over the table; AuthSpec is the session manager over *)
(* the platform's authentication service; DashSpec is the Dashboard's      *)
(* notes handlers over both, with the list of notes the page shows;        *)
(* RaceSpec is the session manager with its notification handler split at  *)
(* its token validation; OwnSpec is the Dashboard's create, update and     *)
(* delete handlers while no session expires; ModalSpec is the note modal   *)
(* (src/components/NoteModal.tsx) over the Dashboard's handlers; OtpSpec   *)
(* and ResendSpec are the code entry and the resend countdown of the OTP   *)
(* verification page (src/pages/OTPVerificationPage.tsx).                  *)
(***************************************************************************)
EXTENDS Integers, Sequences, FiniteSets, TLC

VARIABLES
    notes,      \* the rows of the remote notes table
    nextId,     \* number of ids the table has generated so far
    session,    \* the platform client's current session: <<>> or <<s>>
    now,        \* current time in seconds
    last,       \* the facade call just made and its outcome, until it is forgotten
    user,       \* AuthProvider state: the signed-in identity, NoUser for null
    isAuthenticated,    \* AuthProvider state
    events,     \* notifications the platform has pushed and not yet delivered
    otps,       \* verification codes the platform has issued: [email, expires]
    pending,    \* the signIn or verifyOTP suspended before its token validation
    done,       \* the session manager call just finished, until it is forgotten
    localNotes, \* DashboardPage state `notes`: the list of notes it shows
    modal,      \* NoteModal state, with the isModalOpen and editingNote it is given
    saves,      \* the handleSave calls awaiting their onSave
    otpPage,    \* OTPVerificationPage state
    asked       \* the onAuthStateChange call awaiting its token validation

authVars == <<user, isAuthenticated, events, otps, pending, done>>

uiVars == <<localNotes, modal, saves, otpPage, asked>>

vars == <<notes, nextId, session, now, last, authVars, uiVars>>

----------------------------------------------------------------------------
(* Bounds of the model. *)

MaxNotes == 2       \* ids the table may generate
MaxNow == 3         \* the clock stops here
SessionTTL == 1     \* lifetime the platform gives a session or a refresh

(* Limits of the program. *)

MaxTitleLen == 100
MaxContentLen == 10000

Users == {"A", "B"}
NoUser == "none"

----------------------------------------------------------------------------
(* Strings. A string is kept as its runs of equal characters,              *)
(* <<[ch |-> c, n |-> k], ...>>, adjacent runs having different            *)
(* characters, so that strings of 100 and 10,000 characters stay small.    *)

SP == " "

Rep(c, k) == IF k = 0 THEN <<>> ELSE <<[ch |-> c, n |-> k]>>

Cat(a, b) ==
    IF a = <<>> THEN b
    ELSE IF b = <<>> THEN a
    ELSE IF a[Len(a)].ch = b[1].ch
         THEN SubSeq(a, 1, Len(a) - 1)
              \o <<[ch |-> b[1].ch, n |-> a[Len(a)].n + b[1].n]>>
              \o Tail(b)
         ELSE a \o b

RECURSIVE StrLen(_)
StrLen(s) == IF s = <<>> THEN 0 ELSE Head(s).n + StrLen(Tail(s))

RECURSIVE TrimStart(_)
TrimStart(s) ==
    IF s = <<>> THEN <<>>
    ELSE IF Head(s).ch = SP THEN TrimStart(Tail(s)) ELSE s

RECURSIVE TrimEnd(_)
TrimEnd(s) ==
    IF s = <<>> THEN <<>>
    ELSE IF s[Len(s)].ch = SP THEN TrimEnd(SubSeq(s, 1, Len(s) - 1)) ELSE s

Trim(s) == TrimEnd(TrimStart(s))

EmptyStr == <<>>

----------------------------------------------------------------------------
(* Messages. An error message is the sequence of its words; the empty      *)
(* sequence stands for "no error".                                         *)

NoError == <<>>

Includes(msg, word) == \E i \in 1..Len(msg) : msg[i] = word

MsgAuthError(m) == <<"Authentication", "error:">> \o m
MsgNoSession == <<"No", "valid", "session", "found.", "Please", "log", "in", "again.">>
MsgNoUser == <<"User", "not", "authenticated.", "Please", "log", "in", "again.">>
MsgExpired == <<"Session", "expired.", "Please", "log", "in", "again.">>
MsgAuthFailed == <<"Authentication", "failed.", "Please", "log", "in", "again.">>
MsgAccessDenied ==
    <<"Access", "denied.", "You", "can", "only", "access", "your", "own", "notes.">>
MsgGeneric ==
    <<"An", "error", "occurred", "while", "processing", "your", "request.">>
MsgNoData == <<"No", "data", "returned", "from", "the", "server.">>
MsgTitleRequired == <<"Note", "title", "is", "required.">>
MsgTitleTooLong == <<"Note", "title", "must", "be", "less", "than", "100", "characters.">>
MsgContentTooLong ==
    <<"Note", "content", "must", "be", "less", "than", "10,000", "characters.">>
MsgIdRequired == <<"Note", "ID", "is", "required.">>

ValidationMsgs ==
    {MsgTitleRequired, MsgTitleTooLong, MsgContentTooLong, MsgIdRequired}

(* Errors of the remote platform: <<>> (none) or <<[code, message]>>.       *)

RemoteErr(c, m) == <<[code |-> c, message |-> m]>>

ErrNoRows ==
    RemoteErr("PGRST116",
              <<"JSON", "object", "requested,", "multiple", "(or", "no)",
                "rows", "returned">>)
ErrJwtExpired == RemoteErr("PGRST301", <<"JWT", "expired">>)
ErrRlsInsert ==
    RemoteErr("42501",
              <<"new", "row", "violates", "row-level", "security", "policy">>)
ErrNetwork == RemoteErr("", <<"Failed", "to", "fetch">>)
ErrGetSession == RemoteErr("", <<"storage", "unavailable">>)
ErrJwtMalformed == RemoteErr("", <<"invalid", "JWT">>)
ErrJwtNoRows == RemoteErr("PGRST116", <<"JWT", "claim", "missing">>)
ErrRls == RemoteErr("", <<"RLS", "denied">>)
ErrEmpty == RemoteErr("500", <<>>)

(* What the platform may answer instead of serving a request. *)
RemoteFaults ==
    {NoError, ErrJwtExpired, ErrNetwork, ErrJwtMalformed, ErrJwtNoRows, ErrRls,
     ErrEmpty}
SessionFaults == {NoError, ErrGetSession}

----------------------------------------------------------------------------
(* Sessions. *)

NoSession == <<>>

NewSession(u, t) ==
    <<[user |-> u, access_token |-> TRUE, expires_at |-> t + SessionTTL]>>

(* getAuthenticatedSession: the error it throws, NoError when it returns    *)
(* the session.                                                            *)
ExpiredCheckNever(s, t) == FALSE

ExpiredCheck(s, t) == s.expires_at # 0 /\ s.expires_at < t

GetAuthenticatedSession(sess, fault, t) ==
    IF fault # NoError THEN MsgAuthError(fault[1].message)
    ELSE IF sess = NoSession \/ ~sess[1].access_token THEN MsgNoSession
    ELSE IF sess[1].user = NoUser THEN MsgNoUser
    ELSE IF ExpiredCheck(sess[1], t) THEN MsgExpired
    ELSE NoError

----------------------------------------------------------------------------
(* The notes table with its row security policies and trigger.             *)

Row(i, t, c, u, ca, ua) ==
    [id |-> i, title |-> t, content |-> c, user_id |-> u,
     created_at |-> ca, updated_at |-> ua]

RlsSelectAll(uid, r) == TRUE

RlsSelect(uid, r) == uid = r.user_id
RlsInsertCheck(uid, r) == uid = r.user_id
RlsUpdateUsing(uid, r) == uid = r.user_id
RlsUpdateCheck(uid, r) == uid = r.user_id
RlsDelete(uid, r) == uid = r.user_id

UpdateTriggerOff(new, t) == new

(* BEFORE UPDATE trigger: NEW.updated_at = now() *)
UpdateTrigger(new, t) == [new EXCEPT !.updated_at = t]

(* The sequences that list the rows of S by updated_at descending. *)
OrderedDesc(S) ==
    {q \in [1..Cardinality(S) -> S] :
        /\ \A i, j \in 1..Cardinality(S) : i # j => q[i] # q[j]
        /\ \A i, j \in 1..Cardinality(S) :
              i < j => q[i].updated_at >= q[j].updated_at}

Visible(tbl, uid) == {r \in tbl : RlsSelect(uid, r)}

(* .single(): one row or the PGRST116 error *)
Single(rows) ==
    IF Cardinality(rows) = 1
    THEN [isNull |-> FALSE, rows |-> <<CHOOSE r \in rows : TRUE>>, error |-> NoError]
    ELSE [isNull |-> TRUE, rows |-> <<>>, error |-> ErrNoRows]

InsertRowRaw(nid, title, content, userId, t) ==
    Row(nid + 1, title, content, userId, t, t)

(* insert([{title, content, user_id}]): id, created_at, updated_at default *)
InsertRow(nid, title, content, userId, t) ==
    Row(nid + 1, Trim(title), Trim(content), userId, t, t)

UpdateRowResetsCreated(r, title, content, clientNow, t) ==
    [r EXCEPT !.title = Trim(title), !.content = Trim(content),
              !.created_at = t, !.updated_at = t]

(* update({title, content, updated_at}) applied to row r, then the trigger *)
UpdateRow(r, title, content, clientNow, t) ==
    UpdateTrigger([r EXCEPT !.title = Trim(title),
                            !.content = Trim(content),
                            !.updated_at = clientNow], t)

(* rows an update ... .eq('id', id).eq('user_id', user) may touch *)
UpdateMatched(tbl, uid, id, userId) ==
    {r \in tbl : r.id = id /\ r.user_id = userId /\ RlsUpdateUsing(uid, r)}

DeleteMatchedById(tbl, uid, id, userId) == {r \in tbl : r.id = id}

(* rows a delete ... .eq('id', id).eq('user_id', user) removes *)
DeleteMatched(tbl, uid, id, userId) ==
    {r \in tbl : r.id = id /\ r.user_id = userId /\ RlsDelete(uid, r)}

(* rows of select('user_id').eq('id', id).eq('user_id', user) *)
OwnershipMatched(tbl, uid, id, userId) ==
    {r \in tbl : r.id = id /\ r.user_id = userId /\ RlsSelect(uid, r)}

----------------------------------------------------------------------------
(* The facade. *)

EmptyId == 0
Ids == 1..MaxNotes

Uid(sess) == IF sess = NoSession THEN NoUser ELSE sess[1].user

(* What the operation passed to makeAuthenticatedRequest yields: the error *)
(* its own session check throws, or the {data, error} of the request, and   *)
(* the table, clock and id counter after it.                               *)
OpResult(thrown, isNull, rows, error, reqs, tbl, t, nid) ==
    [thrown |-> thrown, isNull |-> isNull, rows |-> rows, error |-> error,
     reqs |-> reqs, tbl |-> tbl, t |-> t, nid |-> nid]

(* What a facade call ends with: the error it raises (NoError when it      *)
(* returns), the rows it returns, the requests it issued, the table, clock *)
(* and id counter it leaves, and the error the request came back with.     *)
Outcome(err, ret, reqs, tbl, t, nid) ==
    [err |-> err, ret |-> ret, reqs |-> reqs, tbl |-> tbl, t |-> t, nid |-> nid,
     remote |-> NoError]

TranslateErrorDenialFirst(e) ==
    IF e.code = "PGRST116" \/ Includes(e.message, "RLS") THEN MsgAccessDenied
    ELSE IF e.code = "PGRST301" \/ Includes(e.message, "JWT") THEN MsgAuthFailed
    ELSE IF e.message # <<>> THEN e.message
    ELSE MsgGeneric

TranslateErrorPlain(e) ==
    IF e.code = "PGRST301" \/ Includes(e.message, "JWT") THEN MsgAuthFailed
    ELSE IF e.message # <<>> THEN e.message
    ELSE MsgGeneric

TranslateError(e) ==
    IF e.code = "PGRST301" \/ Includes(e.message, "JWT") THEN MsgAuthFailed
    ELSE IF e.code = "PGRST116" \/ Includes(e.message, "RLS") THEN MsgAccessDenied
    ELSE IF e.message # <<>> THEN e.message
    ELSE MsgGeneric

MakeAuthenticatedRequest(sess, f1, t, tbl, nid, op) ==
    LET e1 == GetAuthenticatedSession(sess, f1, t) IN
    IF e1 # NoError THEN Outcome(e1, <<>>, {}, tbl, t, nid)
    ELSE IF op.thrown # NoError
         THEN Outcome(op.thrown, <<>>, op.reqs, op.tbl, op.t, op.nid)
    ELSE IF op.error # NoError
         THEN [Outcome(TranslateError(op.error[1]), <<>>, op.reqs, op.tbl, op.t,
                       op.nid) EXCEPT !.remote = op.error]
    ELSE IF op.isNull
         THEN Outcome(MsgNoData, <<>>, op.reqs, op.tbl, op.t, op.nid)
    ELSE Outcome(NoError, op.rows, op.reqs, op.tbl, op.t, op.nid)

(* The request each operation sends once its own session check passed;     *)
(* fault is what the platform answers instead of serving it.               *)

GetNotesOp(sess, f2, t, tbl, nid, fault, q) ==
    LET e2 == GetAuthenticatedSession(sess, f2, t) IN
    IF e2 # NoError THEN OpResult(e2, TRUE, <<>>, NoError, {}, tbl, t, nid)
    ELSE IF fault # NoError
         THEN OpResult(NoError, TRUE, <<>>, fault, {"select"}, tbl, t, nid)
    ELSE OpResult(NoError, FALSE, q, NoError, {"select"}, tbl, t, nid)

CreateNoteOp(sess, f2, t, tbl, nid, fault, title, content) ==
    LET e2 == GetAuthenticatedSession(sess, f2, t)
        new == InsertRow(nid, title, content, sess[1].user, t + 1)
    IN
    IF e2 # NoError THEN OpResult(e2, TRUE, <<>>, NoError, {}, tbl, t, nid)
    ELSE IF fault # NoError
         THEN OpResult(NoError, TRUE, <<>>, fault, {"insert"}, tbl, t, nid)
    ELSE IF ~RlsInsertCheck(Uid(sess), new)
         THEN OpResult(NoError, TRUE, <<>>, ErrRlsInsert, {"insert"}, tbl, t, nid)
    ELSE LET got == Single(Visible({new}, Uid(sess))) IN
         OpResult(NoError, got.isNull, got.rows, got.error, {"insert"},
                  tbl \cup {new}, t + 1, nid + 1)

UpdateNoteOp(sess, f2, t, tbl, nid, fault, id, title, content) ==
    LET e2 == GetAuthenticatedSession(sess, f2, t)
        hit == UpdateMatched(tbl, Uid(sess), id, sess[1].user)
        new == {UpdateRow(r, title, content, t, t + 1) : r \in hit}
    IN
    IF e2 # NoError THEN OpResult(e2, TRUE, <<>>, NoError, {}, tbl, t, nid)
    ELSE IF fault # NoError
         THEN OpResult(NoError, TRUE, <<>>, fault, {"update"}, tbl, t, nid)
    ELSE IF \E r \in new : ~RlsUpdateCheck(Uid(sess), r)
         THEN OpResult(NoError, TRUE, <<>>, ErrRlsInsert, {"update"}, tbl, t, nid)
    ELSE LET got == Single(Visible(new, Uid(sess))) IN
         OpResult(NoError, got.isNull, got.rows, got.error, {"update"},
                  (tbl \ hit) \cup new, IF hit = {} THEN t ELSE t + 1, nid)

DeleteNoteOp(sess, f2, t, tbl, nid, fault, id) ==
    LET e2 == GetAuthenticatedSession(sess, f2, t)
        hit == DeleteMatched(tbl, Uid(sess), id, sess[1].user)
    IN
    IF e2 # NoError THEN OpResult(e2, TRUE, <<>>, NoError, {}, tbl, t, nid)
    ELSE IF fault # NoError
         THEN OpResult(NoError, TRUE, <<>>, fault, {"delete"}, tbl, t, nid)
    ELSE OpResult(NoError, TRUE, <<>>, NoError, {"delete"}, tbl \ hit, t, nid)

ValidateNoteNoLimit(title, content) ==
    IF Trim(title) = EmptyStr THEN MsgTitleRequired ELSE NoError

ValidateNoteStrict(title, content) ==
    IF Trim(title) = EmptyStr THEN MsgTitleRequired
    ELSE IF StrLen(title) >= MaxTitleLen THEN MsgTitleTooLong
    ELSE IF StrLen(content) >= MaxContentLen THEN MsgContentTooLong
    ELSE NoError

(* Input validation of createNote and updateNote: the message thrown. *)
ValidateNote(title, content) ==
    IF Trim(title) = EmptyStr THEN MsgTitleRequired
    ELSE IF StrLen(title) > MaxTitleLen THEN MsgTitleTooLong
    ELSE IF StrLen(content) > MaxContentLen THEN MsgContentTooLong
    ELSE NoError

ValidateIdSkipped(id) == NoError

ValidateId(id) == IF id = EmptyId THEN MsgIdRequired ELSE NoError

getNotes(sess, t, tbl, nid, f1, f2, fault, q) ==
    MakeAuthenticatedRequest(sess, f1, t, tbl, nid,
        GetNotesOp(sess, f2, t, tbl, nid, fault, q))

createNote(sess, t, tbl, nid, f1, f2, fault, title, content) ==
    LET v == ValidateNote(title, content) IN
    IF v # NoError THEN Outcome(v, <<>>, {}, tbl, t, nid)
    ELSE MakeAuthenticatedRequest(sess, f1, t, tbl, nid,
             CreateNoteOp(sess, f2, t, tbl, nid, fault, title, content))

updateNote(sess, t, tbl, nid, f1, f2, fault, id, title, content) ==
    LET vi == ValidateId(id)
        v == ValidateNote(title, content)
    IN
    IF vi # NoError THEN Outcome(vi, <<>>, {}, tbl, t, nid)
    ELSE IF v # NoError THEN Outcome(v, <<>>, {}, tbl, t, nid)
    ELSE MakeAuthenticatedRequest(sess, f1, t, tbl, nid,
             UpdateNoteOp(sess, f2, t, tbl, nid, fault, id, title, content))

deleteNote(sess, t, tbl, nid, f1, f2, fault, id) ==
    LET vi == ValidateId(id) IN
    IF vi # NoError THEN Outcome(vi, <<>>, {}, tbl, t, nid)
    ELSE MakeAuthenticatedRequest(sess, f1, t, tbl, nid,
             DeleteNoteOp(sess, f2, t, tbl, nid, fault, id))

verifyNoteOwnershipNoCatch(sess, t, tbl, f1, fault, id) ==
    LET e1 == GetAuthenticatedSession(sess, f1, t) IN
    IF e1 # NoError THEN [flag |-> FALSE, reqs |-> {}, err |-> e1]
    ELSE IF fault # NoError
         THEN [flag |-> FALSE, reqs |-> {"select"}, err |-> NoError]
    ELSE LET got == Single(OwnershipMatched(tbl, Uid(sess), id, sess[1].user)) IN
         [flag |-> got.error = NoError /\ ~got.isNull, reqs |-> {"select"},
          err |-> NoError]

(* verifyNoteOwnership: the boolean it returns, the requests it sent and    *)
(* the error it raises; what getAuthenticatedSession throws is caught and  *)
(* ends in flag = FALSE.                                                   *)
verifyNoteOwnership(sess, t, tbl, f1, fault, id) ==
    LET e1 == GetAuthenticatedSession(sess, f1, t) IN
    IF e1 # NoError THEN [flag |-> FALSE, reqs |-> {}, err |-> NoError]
    ELSE IF fault # NoError
         THEN [flag |-> FALSE, reqs |-> {"select"}, err |-> NoError]
    ELSE LET got == Single(OwnershipMatched(tbl, Uid(sess), id, sess[1].user)) IN
         [flag |-> got.error = NoError /\ ~got.isNull, reqs |-> {"select"},
          err |-> NoError]

----------------------------------------------------------------------------
(* The session manager (AuthProvider) and the platform's authentication    *)
(* service.                                                                *)

MaxEvents == 1      \* notifications that may wait for delivery
MaxOtps == 1        \* verification codes that may be outstanding
OtpTTL == 1         \* lifetime the platform gives a verification code

RefreshMargin == 300    \* seconds before expiry at which the check refreshes

EmailOf(u) == IF u = "A" THEN "a@example.com" ELSE "b@example.com"
Emails == {EmailOf(u) : u \in Users}
UserOf(email) == CHOOSE u \in Users : EmailOf(u) = email

Passwords == {"right", "wrong"}
PasswordOk(u, pw) == pw = "right"

Codes == {"111111", "222222"}
CodeOf(email) == IF email = EmailOf("A") THEN "111111" ELSE "222222"

MsgInvalidToken == <<"Invalid", "authentication", "token">>

ErrInvalidCredentials ==
    RemoteErr("invalid_credentials", <<"Invalid", "login", "credentials">>)
ErrOtpInvalid ==
    RemoteErr("otp_expired", <<"Token", "has", "expired", "or", "is", "invalid">>)

(* What the authentication service may answer instead of serving a call. *)
AuthFaults == {NoError, ErrNetwork}

(* `if (error) throw error`: the message the call raises *)
ThrowNever(error) == NoError

ThrowIfError(error) == IF error # NoError THEN error[1].message ELSE NoError

(* validateJWTToken: getUser() for the client's current session answered   *)
(* with a user and no error.                                               *)
ValidateJWTToken(sess, fault, t) ==
    /\ fault = NoError
    /\ sess # NoSession
    /\ sess[1].expires_at >= t

(* refreshJWTToken: the refreshed session, NoSession for null *)
RefreshJWTToken(sess, fault, t) ==
    IF fault = NoError /\ sess # NoSession
    THEN NewSession(sess[1].user, t)
    ELSE NoSession

(* verifyOtp: the platform accepts the code issued to the email until it    *)
(* expires.                                                                *)
OtpAccepted(codes, email, code, t) ==
    \E o \in codes : o.email = email /\ code = CodeOf(email) /\ o.expires >= t

IssueOtp(codes, email, t) ==
    {o \in codes : o.email # email} \cup {[email |-> email, expires |-> t + OtpTTL]}

Event(e, sess) == [event |-> e, session |-> sess]

AuthState(u, a) == [user |-> u, isAuthenticated |-> a]

AuthStateChangeTrusting(pushed, isValid) ==
    IF pushed # NoSession /\ pushed[1].user # NoUser
    THEN AuthState(pushed[1].user, TRUE)
    ELSE AuthState(NoUser, FALSE)

(* The onAuthStateChange handler: what it sets user and isAuthenticated to. *)
AuthStateChangeResult(pushed, isValid) ==
    IF pushed # NoSession /\ pushed[1].user # NoUser
    THEN IF isValid
         THEN AuthState(pushed[1].user, TRUE)
         ELSE AuthState(NoUser, FALSE)
    ELSE AuthState(NoUser, FALSE)

(* The `user` the interval callback reads: the one of the render in which  *)
(* the effect ran, the first, the effect having no dependencies.           *)
IntervalUser == NoUser

(* The record of a session manager call: the operation and its arguments;  *)
(* whether the remote call succeeded and the session it issued; whether a  *)
(* token validation was made and what it returned; the session a           *)
(* notification carried; the error raised; for a refresh, whether it was   *)
(* due and whether it was made; user, isAuthenticated and the session as   *)
(* they were when the call began; whether the platform answered every      *)
(* request of the call; and, for a Dashboard handler, the signOut it made  *)
(* and the ownership check it made, [id, flag].                            *)
NoDone ==
    [op |-> "none", email |-> "", code |-> "", codeGood |-> FALSE,
     remoteOk |-> FALSE, issued |-> NoSession, validated |-> FALSE,
     pushed |-> NoSession, err |-> NoError, due |-> FALSE, refreshed |-> FALSE,
     userBefore |-> NoUser, authBefore |-> FALSE, sessBefore |-> NoSession,
     quiet |-> TRUE, signOut |-> <<>>, own |-> <<>>]

----------------------------------------------------------------------------
(* Inputs. *)

A1 == Rep("a", 1)
B1 == Rep("b", 1)

NoteInputs ==
    { <<Cat(Rep(SP, 1), Cat(A1, Rep(SP, 1))), Cat(Rep(SP, 1), Cat(B1, Rep(SP, 1)))>>,
      <<Rep("a", MaxTitleLen), Rep("b", MaxContentLen)>>,
      <<EmptyStr, B1>>,
      <<Rep(SP, 2), EmptyStr>>,
      <<Rep("a", MaxTitleLen + 1), EmptyStr>>,
      <<A1, Rep("b", MaxContentLen + 1)>> }

IdInputs == {EmptyId} \cup Ids

(* What the platform does to one facade call: f1 and f2 are the answers of *)
(* the two getSession calls, fault the answer of the notes request.        *)
Env(f1, f2, fault) == [f1 |-> f1, f2 |-> f2, fault |-> fault]

Envs ==
    { Env(NoError, NoError, NoError),
      Env(ErrGetSession, NoError, NoError),
      Env(NoError, ErrGetSession, NoError),
      Env(NoError, NoError, ErrJwtExpired),
      Env(NoError, NoError, ErrNetwork),
      Env(NoError, NoError, ErrJwtMalformed),
      Env(NoError, NoError, ErrJwtNoRows),
      Env(NoError, NoError, ErrRls),
      Env(NoError, NoError, ErrEmpty) }

(* A call that fails validation consults neither the session nor the       *)
(* platform: there is one environment for it.                              *)
EnvsFor(v) == IF v # NoError THEN {Env(NoError, NoError, NoError)} ELSE Envs

----------------------------------------------------------------------------
(* The state of the pages. *)

CountdownStart == 60    \* seconds before the resend button is enabled
OtpCells == 6           \* input cells of the verification code

(* NoteModal as it is first rendered: closed, nothing typed, not saving. *)
NoModal ==
    [isOpen |-> FALSE, note |-> <<>>, title |-> EmptyStr, content |-> EmptyStr,
     isSaving |-> FALSE]

(* OTPVerificationPage as it is mounted for an email, with what it has     *)
(* done: the seconds since it issued its last resend request, whether the  *)
(* request succeeded, and of the request before it whether it succeeded    *)
(* and was 60 seconds old when this one was issued, <<>> before the first; *)
(* the code of the verifyOTP                                               *)
(* call it awaits with the cells it was joined from; and whether it has    *)
(* moved on to the dashboard.                                              *)
OtpPageFor(email) ==
    [email |-> email, otp |-> [i \in 1..OtpCells |-> ""],
     countdown |-> CountdownStart, otpError |-> NoError, isResending |-> FALSE,
     sinceResend |-> <<>>, verifying |-> <<>>, navigated |-> FALSE]

NoOtpPage == OtpPageFor("")

----------------------------------------------------------------------------
(* State machine. *)

(* Whether a session exists whose expiry is not in the past. *)
SessionValid(sess, t) == sess # NoSession /\ sess[1].expires_at >= t

(* The record of a facade call: the operation and its arguments; the       *)
(* caller's identity, whether its session was valid and whether the        *)
(* platform answered without a fault; the error raised (NoError when the   *)
(* call returned), the rows returned, the boolean returned by              *)
(* verifyNoteOwnership, the requests sent to the notes table; the rows the *)
(* call removed from the table (as they were) and the rows it put there;   *)
(* the error the request came back with; and the call it directly         *)
(* follows, <<>> when that does not matter.                                *)
Call(op, id, title, content, e, out, flag, after) ==
    [op |-> op, id |-> id, title |-> title, content |-> content,
     uid |-> Uid(session), valid |-> SessionValid(session, now),
     quiet |-> e = Env(NoError, NoError, NoError),
     err |-> out.err, ret |-> out.ret, flag |-> flag, reqs |-> out.reqs,
     removed |-> notes \ out.tbl, added |-> out.tbl \ notes,
     remote |-> out.remote, after |-> after]

NoCall ==
    [op |-> "none", id |-> EmptyId, title |-> EmptyStr, content |-> EmptyStr,
     uid |-> NoUser, valid |-> FALSE, quiet |-> TRUE,
     err |-> NoError, ret |-> <<>>, flag |-> FALSE, reqs |-> {},
     removed |-> {}, added |-> {}, remote |-> NoError, after |-> <<>>]

(* The call kept with its successor: a createNote or updateNote that       *)
(* returned, before a getNotes; a deleteNote that removed its row, before  *)
(* a deleteNote of the same id.                                            *)
After(op, id) ==
    IF \/ /\ op = "getNotes"
          /\ last.op \in {"createNote", "updateNote"}
          /\ last.err = NoError
       \/ /\ op = "deleteNote"
          /\ last.op = "deleteNote"
          /\ last.id = id
          /\ last.removed # {}
    THEN <<[last EXCEPT !.after = <<>>]>>
    ELSE <<>>

(* A call is observed from a state that holds no record, or as the        *)
(* successor of the recorded call.                                         *)
Observable(op, id) == last = NoCall \/ After(op, id) # <<>>

(* The table as it was before the last call. *)
Before(c) == (notes \ c.added) \cup c.removed

Init ==
    /\ notes = {}
    /\ nextId = 0
    /\ session = NoSession
    /\ now = 0
    /\ last = NoCall
    /\ user = NoUser
    /\ isAuthenticated = FALSE
    /\ events = <<>>
    /\ otps = {}
    /\ pending = <<>>
    /\ done = NoDone
    /\ localNotes = <<>>
    /\ modal = NoModal
    /\ saves = <<>>
    /\ otpPage = NoOtpPage
    /\ asked = <<>>

Finish(op, id, title, content, e, out) ==
    /\ out.t <= MaxNow
    /\ out.nid <= MaxNotes
    /\ notes' = out.tbl
    /\ now' = out.t
    /\ nextId' = out.nid
    /\ last' = Call(op, id, title, content, e, out, FALSE, After(op, id))
    /\ UNCHANGED <<session, authVars, uiVars>>

GetNotesWith(e, q) ==
    Finish("getNotes", EmptyId, EmptyStr, EmptyStr, e,
           getNotes(session, now, notes, nextId, e.f1, e.f2, e.fault, q))

CreateNoteWith(e, title, content) ==
    Finish("createNote", EmptyId, title, content, e,
           createNote(session, now, notes, nextId, e.f1, e.f2, e.fault,
                      title, content))

UpdateNoteWith(e, id, title, content) ==
    Finish("updateNote", id, title, content, e,
           updateNote(session, now, notes, nextId, e.f1, e.f2, e.fault,
                      id, title, content))

DeleteNoteWith(e, id) ==
    Finish("deleteNote", id, EmptyStr, EmptyStr, e,
           deleteNote(session, now, notes, nextId, e.f1, e.f2, e.fault, id))

VerifyNoteOwnershipWith(e, id) ==
    LET got == verifyNoteOwnership(session, now, notes, e.f1, e.fault, id)
        out == Outcome(got.err, <<>>, got.reqs, notes, now, nextId)
    IN
    /\ last' = Call("verifyNoteOwnership", id, EmptyStr, EmptyStr, e, out,
                    got.flag, <<>>)
    /\ UNCHANGED <<notes, nextId, session, now, authVars, uiVars>>

CallGetNotes ==
    /\ Observable("getNotes", EmptyId)
    /\ \E e \in Envs :
       \E q \in OrderedDesc(Visible(notes, Uid(session))) : GetNotesWith(e, q)

CallCreateNote ==
    /\ Observable("createNote", EmptyId)
    /\ \E in \in NoteInputs :
       \E e \in EnvsFor(ValidateNote(in[1], in[2])) :
           CreateNoteWith(e, in[1], in[2])

CallUpdateNote ==
    \E id \in IdInputs :
    /\ Observable("updateNote", id)
    /\ \E in \in NoteInputs :
       \E e \in EnvsFor(ValidateId(id) \o ValidateNote(in[1], in[2])) :
           UpdateNoteWith(e, id, in[1], in[2])

CallDeleteNote ==
    \E id \in IdInputs :
    /\ Observable("deleteNote", id)
    /\ \E e \in EnvsFor(ValidateId(id)) : DeleteNoteWith(e, id)

(* verifyNoteOwnership asks for the session once *)
CallVerifyNoteOwnership ==
    \E id \in IdInputs :
    /\ Observable("verifyNoteOwnership", id)
    /\ \E e \in {x \in Envs : x.f2 = NoError} : VerifyNoteOwnershipWith(e, id)

(* The platform issues a session to identity u (password sign-in, OTP      *)
(* verification, OAuth callback). A change of the session or of the clock  *)
(* drops the record of the call made before it.                            *)
PlatformSignIn(u) ==
    /\ session' = NewSession(u, now)
    /\ last' = NoCall
    /\ UNCHANGED <<notes, nextId, now, authVars, uiVars>>

PlatformSignOut ==
    /\ session # NoSession
    /\ session' = NoSession
    /\ last' = NoCall
    /\ UNCHANGED <<notes, nextId, now, authVars, uiVars>>

(* refreshSession: a new token and expiry for the same identity *)
PlatformRefresh ==
    /\ session # NoSession
    /\ session' = NewSession(session[1].user, now)
    /\ last' = NoCall
    /\ UNCHANGED <<notes, nextId, now, authVars, uiVars>>

Tick ==
    /\ now < MaxNow
    /\ now' = now + 1
    /\ last' = NoCall
    /\ done' = NoDone
    /\ UNCHANGED <<notes, nextId, session>>
    /\ UNCHANGED <<user, isAuthenticated, events, otps, pending, uiVars>>

(* The record of the call just made is dropped. *)
Forget ==
    /\ last # NoCall
    /\ last' = NoCall
    /\ UNCHANGED <<notes, nextId, session, now, authVars, uiVars>>

Next ==
    \/ CallGetNotes
    \/ CallCreateNote
    \/ CallUpdateNote
    \/ CallDeleteNote
    \/ CallVerifyNoteOwnership
    \/ \E u \in Users : PlatformSignIn(u)
    \/ PlatformSignOut
    \/ PlatformRefresh
    \/ Tick
    \/ Forget

Spec == Init /\ [][Next]_vars

----------------------------------------------------------------------------
(* The session manager's state machine. Its calls leave the notes table    *)
(* and the record of facade calls alone.                                   *)

facadeVars == <<notes, nextId, last>>

(* The record of a call that begins in the current state. *)
Began(op) ==
    [NoDone EXCEPT !.op = op, !.userBefore = user,
                   !.authBefore = isAuthenticated, !.sessBefore = session]

(* signUp: the platform issues a verification code to the email. *)
SignUp(email, fault) ==
    /\ done = NoDone
    /\ pending = <<>>
    /\ otps' = IF fault = NoError THEN IssueOtp(otps, email, now) ELSE otps
    /\ Cardinality(otps') <= MaxOtps
    /\ done' = [Began("signUp") EXCEPT !.email = email,
                                       !.remoteOk = (fault = NoError),
                                       !.err = ThrowIfError(fault),
                                       !.quiet = (fault = NoError)]
    /\ UNCHANGED <<session, now, user, isAuthenticated, events, pending, facadeVars, uiVars>>

(* resendOTP: the platform issues a new code to the email. *)
ResendOTP(email, fault) ==
    /\ done = NoDone
    /\ pending = <<>>
    /\ otps' = IF fault = NoError THEN IssueOtp(otps, email, now) ELSE otps
    /\ Cardinality(otps') <= MaxOtps
    /\ done' = [Began("resendOTP") EXCEPT !.email = email,
                                          !.remoteOk = (fault = NoError),
                                          !.err = ThrowIfError(fault),
                                          !.quiet = (fault = NoError)]
    /\ UNCHANGED <<session, now, user, isAuthenticated, events, pending, facadeVars, uiVars>>

(* signIn up to its token validation: signInWithPassword either fails, and *)
(* signIn throws, or stores a session and pushes SIGNED_IN.                *)
SignIn(u, pw, fault) ==
    /\ done = NoDone
    /\ pending = <<>>
    /\ LET error == IF fault # NoError THEN fault
                    ELSE IF PasswordOk(u, pw) THEN NoError
                    ELSE ErrInvalidCredentials
           call == [Began("signIn") EXCEPT !.email = EmailOf(u),
                                           !.quiet = (fault = NoError)]
       IN
       IF error # NoError
       THEN /\ done' = [call EXCEPT !.err = ThrowIfError(error)]
            /\ UNCHANGED <<session, events, pending>>
       ELSE /\ Len(events) < MaxEvents
            /\ session' = NewSession(u, now)
            /\ events' = Append(events, Event("SIGNED_IN", session'))
            /\ pending' = <<[call EXCEPT !.remoteOk = TRUE, !.issued = session']>>
            /\ done' = NoDone
    /\ UNCHANGED <<now, user, isAuthenticated, otps, facadeVars, uiVars>>

(* verifyOTP up to its token validation: verifyOtp either fails, and       *)
(* verifyOTP throws, or stores a session for the identity of the email and *)
(* pushes SIGNED_IN.                                                       *)
VerifyOTP(email, code, fault) ==
    /\ done = NoDone
    /\ pending = <<>>
    /\ LET good == OtpAccepted(otps, email, code, now)
           error == IF fault # NoError THEN fault
                    ELSE IF good THEN NoError
                    ELSE ErrOtpInvalid
           call == [Began("verifyOTP") EXCEPT !.email = email, !.code = code,
                                              !.codeGood = good,
                                              !.quiet = (fault = NoError)]
       IN
       IF error # NoError
       THEN /\ done' = [call EXCEPT !.err = ThrowIfError(error)]
            /\ UNCHANGED <<session, events, otps, pending>>
       ELSE /\ Len(events) < MaxEvents
            /\ session' = NewSession(UserOf(email), now)
            /\ events' = Append(events, Event("SIGNED_IN", session'))
            /\ otps' = {o \in otps : o.email # email}
            /\ pending' = <<[call EXCEPT !.remoteOk = TRUE, !.issued = session']>>
            /\ done' = NoDone
    /\ UNCHANGED <<now, user, isAuthenticated, facadeVars, uiVars>>

(* The rest of signIn and of verifyOTP: validateJWTToken for the client's  *)
(* current session, and the throw when it returns false.                   *)
ValidateIssued(fault) ==
    /\ pending # <<>>
    /\ LET isValid == ValidateJWTToken(session, fault, now) IN
       done' = [pending[1] EXCEPT
                   !.validated = isValid,
                   !.err = IF isValid THEN NoError ELSE MsgInvalidToken,
                   !.quiet = (pending[1].quiet /\ fault = NoError)]
    /\ pending' = <<>>
    /\ UNCHANGED <<session, now, user, isAuthenticated, events, otps, facadeVars, uiVars>>

(* signInWithGoogle: the redirect fails, and the call throws, or the OAuth *)
(* callback leaves a session in the client, which pushes SIGNED_IN.        *)
SignInWithGoogle(u, fault) ==
    /\ done = NoDone
    /\ pending = <<>>
    /\ fault = NoError => Len(events) < MaxEvents
    /\ session' = IF fault = NoError THEN NewSession(u, now) ELSE session
    /\ events' = IF fault = NoError
                 THEN Append(events, Event("SIGNED_IN", session'))
                 ELSE events
    /\ done' = [Began("signInWithGoogle") EXCEPT !.email = EmailOf(u),
                                                 !.remoteOk = (fault = NoError),
                                                 !.issued = IF fault = NoError
                                                            THEN session'
                                                            ELSE NoSession,
                                                 !.err = ThrowIfError(fault),
                                                 !.quiet = (fault = NoError)]
    /\ UNCHANGED <<now, user, isAuthenticated, otps, pending, facadeVars, uiVars>>

(* The onAuthStateChange handler, for the oldest notification pushed. *)
OnAuthStateChange(fault) ==
    /\ events # <<>>
    /\ LET pushed == Head(events).session
           asks == pushed # NoSession /\ pushed[1].user # NoUser
           isValid == asks /\ ValidateJWTToken(session, fault, now)
           res == AuthStateChangeResult(pushed, isValid)
       IN
       /\ ~asks => fault = NoError
       /\ user' = res.user
       /\ isAuthenticated' = res.isAuthenticated
       /\ done' = [Began("onAuthStateChange") EXCEPT
                      !.pushed = pushed, !.validated = isValid,
                      !.quiet = (fault = NoError)]
    /\ events' = Tail(events)
    /\ UNCHANGED <<session, now, otps, pending, facadeVars, uiVars>>

(* signOut: the remote call fails, and signOut throws before it clears the *)
(* state, or the session is removed and SIGNED_OUT pushed. What it leaves  *)
(* and the error it raises.                                                *)
SignOutResult(sess, evs, u, a, fault) ==
    LET err == ThrowIfError(fault) IN
    [session |-> IF fault = NoError THEN NoSession ELSE sess,
     events |-> IF fault = NoError
                THEN Append(evs, Event("SIGNED_OUT", NoSession))
                ELSE evs,
     user |-> IF err = NoError THEN NoUser ELSE u,
     isAuthenticated |-> IF err = NoError THEN FALSE ELSE a,
     remoteOk |-> (fault = NoError),
     err |-> err]

SignOut(fault) ==
    /\ done = NoDone
    /\ pending = <<>>
    /\ LET so == SignOutResult(session, events, user, isAuthenticated, fault) IN
       /\ Len(so.events) <= MaxEvents
       /\ session' = so.session
       /\ events' = so.events
       /\ user' = so.user
       /\ isAuthenticated' = so.isAuthenticated
       /\ done' = [Began("signOut") EXCEPT !.remoteOk = so.remoteOk,
                                           !.err = so.err,
                                           !.quiet = (fault = NoError)]
    /\ UNCHANGED <<now, otps, pending, facadeVars, uiVars>>

(* refreshSession: with a new token, user and isAuthenticated follow the   *)
(* client's session; without one the catch block clears them and returns.  *)
RefreshSession(fault) ==
    /\ done = NoDone
    /\ pending = <<>>
    /\ LET new == RefreshJWTToken(session, fault, now) IN
       /\ new # NoSession => Len(events) < MaxEvents
       /\ session' = IF new # NoSession THEN new ELSE session
       /\ events' = IF new # NoSession
                    THEN Append(events, Event("TOKEN_REFRESHED", new))
                    ELSE events
       /\ user' = IF new # NoSession THEN Uid(session') ELSE NoUser
       /\ isAuthenticated' = IF new # NoSession THEN Uid(session') # NoUser ELSE FALSE
       /\ done' = [Began("refreshSession") EXCEPT
                      !.due = TRUE, !.refreshed = (new # NoSession),
                      !.issued = new, !.err = NoError,
                      !.quiet = (fault = NoError)]
    /\ UNCHANGED <<now, otps, pending, facadeVars, uiVars>>

(* One run of the interval callback: with a user and a session that        *)
(* expires within the margin it refreshes the token.                       *)
TokenRefreshInterval(fault) ==
    /\ done = NoDone
    /\ LET due == session # NoSession /\ session[1].expires_at - now < RefreshMargin
           new == IF IntervalUser # NoUser /\ due
                  THEN RefreshJWTToken(session, fault, now)
                  ELSE NoSession
       IN
       /\ new # NoSession => Len(events) < MaxEvents
       /\ session' = IF new # NoSession THEN new ELSE session
       /\ events' = IF new # NoSession
                    THEN Append(events, Event("TOKEN_REFRESHED", new))
                    ELSE events
       /\ done' = [Began("tokenRefreshInterval") EXCEPT
                      !.due = due, !.refreshed = (new # NoSession),
                      !.issued = new, !.quiet = (fault = NoError)]
    /\ UNCHANGED <<now, user, isAuthenticated, otps, pending, facadeVars, uiVars>>

(* initializeAuth, when the page is loaded: the stored session is          *)
(* validated, refreshed when the validation fails, and user and            *)
(* isAuthenticated set from the outcome.                                   *)
InitializeAuth(f1, f2) ==
    /\ done = NoDone
    /\ pending = <<>>
    /\ events = <<>>
    /\ LET has == session # NoSession /\ session[1].user # NoUser
           isValid == has /\ ValidateJWTToken(session, f1, now)
           new == IF has /\ ~isValid
                  THEN RefreshJWTToken(session, f2, now)
                  ELSE NoSession
       IN
       /\ (~has \/ isValid) => f2 = NoError
       /\ ~has => f1 = NoError
       /\ new # NoSession => Len(events) < MaxEvents
       /\ session' = IF new # NoSession THEN new ELSE session
       /\ events' = IF new # NoSession
                    THEN Append(events, Event("TOKEN_REFRESHED", new))
                    ELSE events
       /\ user' = IF isValid \/ new # NoSession THEN Uid(session') ELSE NoUser
       /\ isAuthenticated' = (isValid \/ new # NoSession)
       /\ done' = [Began("initializeAuth") EXCEPT
                      !.validated = isValid, !.refreshed = (new # NoSession),
                      !.issued = new,
                      !.quiet = (f1 = NoError /\ f2 = NoError)]
    /\ UNCHANGED <<now, otps, pending, facadeVars, uiVars>>

(* The platform signs the session out elsewhere and pushes SIGNED_OUT. *)
PushSignedOut ==
    /\ session # NoSession
    /\ Len(events) < MaxEvents
    /\ session' = NoSession
    /\ events' = Append(events, Event("SIGNED_OUT", NoSession))
    /\ done' = NoDone
    /\ UNCHANGED <<now, user, isAuthenticated, otps, pending, facadeVars, uiVars>>

(* autoRefreshToken: the client refreshes its session and pushes           *)
(* TOKEN_REFRESHED.                                                        *)
PushTokenRefreshed ==
    /\ session # NoSession
    /\ Len(events) < MaxEvents
    /\ session' = NewSession(session[1].user, now)
    /\ events' = Append(events, Event("TOKEN_REFRESHED", session'))
    /\ done' = NoDone
    /\ UNCHANGED <<now, user, isAuthenticated, otps, pending, facadeVars, uiVars>>

(* The record of the session manager call just made is dropped. *)
ForgetDone ==
    /\ done # NoDone
    /\ done' = NoDone
    /\ UNCHANGED <<session, now, user, isAuthenticated, events, otps, pending,
                   facadeVars, uiVars>>

AuthNext ==
    \/ \E email \in Emails, fault \in AuthFaults : SignUp(email, fault)
    \/ \E email \in Emails, fault \in AuthFaults : ResendOTP(email, fault)
    \/ \E u \in Users, pw \in Passwords, fault \in AuthFaults : SignIn(u, pw, fault)
    \/ \E email \in Emails, code \in Codes, fault \in AuthFaults :
           VerifyOTP(email, code, fault)
    \/ \E fault \in AuthFaults : ValidateIssued(fault)
    \/ \E u \in Users, fault \in AuthFaults : SignInWithGoogle(u, fault)
    \/ \E fault \in AuthFaults : OnAuthStateChange(fault)
    \/ \E fault \in AuthFaults : SignOut(fault)
    \/ \E fault \in AuthFaults : RefreshSession(fault)
    \/ \E fault \in AuthFaults : TokenRefreshInterval(fault)
    \/ \E f1, f2 \in AuthFaults : InitializeAuth(f1, f2)
    \/ PushSignedOut
    \/ PushTokenRefreshed
    \/ Tick
    \/ ForgetDone

AuthSpec == Init /\ [][AuthNext]_vars

----------------------------------------------------------------------------
(* The session manager with the notification handler taken in the two      *)
(* steps its `await validateJWTToken()` divides it into.                   *)

(* The handler is called with the oldest notification, which carries a     *)
(* session with a user, and asks the platform to validate the token of the *)
(* client's current session; the platform answers for the session it holds *)
(* now, and the answer is under way.                                       *)
AuthStateChangeAsked(fault) ==
    /\ events # <<>>
    /\ asked = <<>>
    /\ LET pushed == Head(events).session IN
       /\ pushed # NoSession /\ pushed[1].user # NoUser
       /\ asked' = <<[event |-> Head(events).event, pushed |-> pushed,
                      isValid |-> ValidateJWTToken(session, fault, now),
                      quiet |-> (fault = NoError)]>>
    /\ events' = Tail(events)
    /\ done' = NoDone
    /\ UNCHANGED <<session, now, user, isAuthenticated, otps, pending, facadeVars,
                   localNotes, modal, saves, otpPage>>

(* The answer arrives and the handler sets user and isAuthenticated from   *)
(* it and from the session it was called with.                             *)
AuthStateChangeAnswered ==
    /\ asked # <<>>
    /\ LET res == AuthStateChangeResult(asked[1].pushed, asked[1].isValid) IN
       /\ user' = res.user
       /\ isAuthenticated' = res.isAuthenticated
       /\ done' = [Began("onAuthStateChange") EXCEPT
                      !.pushed = asked[1].pushed, !.validated = asked[1].isValid,
                      !.quiet = asked[1].quiet]
    /\ asked' = <<>>
    /\ UNCHANGED <<session, events, now, otps, pending, facadeVars,
                   localNotes, modal, saves, otpPage>>

(* The handler called with a notification that carries no session: it has  *)
(* nothing to wait for.                                                    *)
AuthStateChangeSignedOut ==
    /\ events # <<>>
    /\ Head(events).session = NoSession
    /\ OnAuthStateChange(NoError)

RaceNext ==
    \/ \E u \in Users, fault \in AuthFaults : SignInWithGoogle(u, fault)
    \/ \E fault \in AuthFaults : AuthStateChangeAsked(fault)
    \/ AuthStateChangeAnswered
    \/ AuthStateChangeSignedOut
    \/ \E fault \in AuthFaults : SignOut(fault)
    \/ \E fault \in AuthFaults : RefreshSession(fault)
    \/ PushTokenRefreshed
    \/ Tick
    \/ ForgetDone

RaceSpec == Init /\ [][RaceNext]_vars

----------------------------------------------------------------------------
(* The Dashboard's notes handlers over the facade and the session manager. *)

MsgLogInToAccess == <<"Please", "log", "in", "to", "access", "your", "notes">>
MsgLogInToCreate == <<"Please", "log", "in", "to", "create", "notes">>
MsgLogInToUpdate == <<"Please", "log", "in", "to", "update", "notes">>
MsgLogInToDelete == <<"Please", "log", "in", "to", "delete", "notes">>
MsgOnlyEditOwn == <<"You", "can", "only", "edit", "your", "own", "notes">>
MsgOnlyDeleteOwn == <<"You", "can", "only", "delete", "your", "own", "notes">>

(* The catch block of a handler: whether it calls signOut. *)
ForcesSignOut(msg) == Includes(msg, "JWT") \/ Includes(msg, "Authentication")

(* What a handler closes over: `notes` and isAuthenticated of the render   *)
(* that created it.                                                        *)
Closure == [notes |-> localNotes, isAuthenticated |-> isAuthenticated]

(* setNotes([newNote, ...notes]) *)
SetNotesCreated(seen, newNote) == <<newNote>> \o seen

(* setNotes(notes.map(note => note.id === id ? updatedNote : note)) *)
SetNotesUpdated(seen, id, updatedNote) ==
    [i \in DOMAIN seen |-> IF seen[i].id = id THEN updatedNote ELSE seen[i]]

(* setNotes(notes.filter(note => note.id !== id)) *)
SetNotesDeleted(seen, id) == SelectSeq(seen, LAMBDA n : n.id # id)

(* The list a handler sets once its facade call has returned ret. *)
SetNotes(handler, seen, id, ret) ==
    CASE handler = "loadNotes" -> ret
      [] handler = "handleCreateNote" -> SetNotesCreated(seen, ret[1])
      [] handler = "handleUpdateNote" -> SetNotesUpdated(seen, id, ret[1])
      [] handler = "handleDeleteNote" -> SetNotesDeleted(seen, id)

(* The record of a handler that begins with the closure cl. *)
BeganWith(handler, cl) ==
    [Began(handler) EXCEPT !.authBefore = cl.isAuthenticated]

(* A handler ends after the facade call `call` with outcome out: the table *)
(* is as the call left it, a call that returned is followed by setNotes,   *)
(* and an error of the call that mentions JWT or Authentication is         *)
(* followed by signOut, sf being the platform's answer to it. own is the   *)
(* ownership check the handler made before the call, <<>> for none.        *)
Handled(handler, cl, call, out, own) ==
    /\ out.t <= MaxNow
    /\ out.nid <= MaxNotes
    /\ notes' = out.tbl
    /\ now' = out.t
    /\ nextId' = out.nid
    /\ last' = call
    /\ localNotes' = IF out.err = NoError
                     THEN SetNotes(handler, cl.notes, call.id, out.ret)
                     ELSE localNotes
    /\ IF out.err # NoError /\ ForcesSignOut(out.err)
       THEN \E sf \in AuthFaults :
            LET so == SignOutResult(session, events, user, isAuthenticated, sf) IN
            /\ Len(so.events) <= MaxEvents
            /\ session' = so.session
            /\ events' = so.events
            /\ user' = so.user
            /\ isAuthenticated' = so.isAuthenticated
            /\ done' = [BeganWith(handler, cl) EXCEPT !.err = out.err, !.own = own,
                                                      !.signOut = <<so>>]
       ELSE /\ done' = [BeganWith(handler, cl) EXCEPT !.err = out.err, !.own = own]
            /\ UNCHANGED <<session, events, user, isAuthenticated>>
    /\ UNCHANGED <<otps, pending, otpPage, asked>>

(* A handler that returns before any facade call changes nothing. *)
Refused(handler, cl, msg) ==
    /\ done' = [BeganWith(handler, cl) EXCEPT !.err = msg]
    /\ UNCHANGED <<notes, nextId, session, now, last, user, isAuthenticated,
                   events, otps, pending, localNotes, otpPage, asked>>

NotOwnedProceeds(handler, cl, e, id, got, msg) ==
    \E e2 \in {Env(NoError, NoError, NoError)} :
    LET out == IF handler = "handleUpdateNote"
               THEN updateNote(session, now, notes, nextId, e2.f1, e2.f2, e2.fault,
                               id, A1, B1)
               ELSE deleteNote(session, now, notes, nextId, e2.f1, e2.f2, e2.fault, id)
    IN
    Handled(handler, cl,
            Call(IF handler = "handleUpdateNote" THEN "updateNote" ELSE "deleteNote",
                 id, EmptyStr, EmptyStr, e2, out, FALSE, <<>>),
            out, <<[id |-> id, flag |-> got.flag]>>)

(* A handler whose ownership check returned false. *)
NotOwned(handler, cl, e, id, got, msg) ==
    /\ last' = Call("verifyNoteOwnership", id, EmptyStr, EmptyStr, e,
                    Outcome(got.err, <<>>, got.reqs, notes, now, nextId),
                    got.flag, <<>>)
    /\ done' = [BeganWith(handler, cl) EXCEPT
                   !.err = msg, !.own = <<[id |-> id, flag |-> got.flag]>>]
    /\ UNCHANGED <<notes, nextId, session, now, user, isAuthenticated, events,
                   otps, pending, localNotes, otpPage, asked>>

(* No handler is running and the records of the last one are dropped. *)
Idle == last = NoCall /\ done = NoDone /\ pending = <<>>

OwnershipEnvs == {x \in Envs : x.f2 = NoError}

LoadNotes ==
    /\ Idle
    /\ IF ~isAuthenticated
       THEN Refused("loadNotes", Closure, MsgLogInToAccess)
       ELSE \E e \in Envs :
            \E q \in OrderedDesc(Visible(notes, Uid(session))) :
            LET out == getNotes(session, now, notes, nextId, e.f1, e.f2, e.fault, q) IN
            Handled("loadNotes", Closure,
                    Call("getNotes", EmptyId, EmptyStr, EmptyStr, e, out, FALSE, <<>>),
                    out, <<>>)
    /\ UNCHANGED <<modal, saves>>

HandleCreateNote(cl, title, content) ==
    IF ~cl.isAuthenticated
    THEN Refused("handleCreateNote", cl, MsgLogInToCreate)
    ELSE \E e \in EnvsFor(ValidateNote(title, content)) :
         LET out == createNote(session, now, notes, nextId, e.f1, e.f2, e.fault,
                               title, content)
         IN
         Handled("handleCreateNote", cl,
                 Call("createNote", EmptyId, title, content, e, out, FALSE, <<>>),
                 out, <<>>)

HandleUpdateNote(cl, id, title, content) ==
    IF ~cl.isAuthenticated
    THEN Refused("handleUpdateNote", cl, MsgLogInToUpdate)
    ELSE \E e1 \in OwnershipEnvs :
         LET got == verifyNoteOwnership(session, now, notes, e1.f1, e1.fault, id) IN
         IF ~got.flag
         THEN NotOwned("handleUpdateNote", cl, e1, id, got, MsgOnlyEditOwn)
         ELSE \E e \in EnvsFor(ValidateId(id) \o ValidateNote(title, content)) :
              LET out == updateNote(session, now, notes, nextId, e.f1, e.f2,
                                    e.fault, id, title, content)
              IN
              Handled("handleUpdateNote", cl,
                      Call("updateNote", id, title, content, e, out, FALSE, <<>>),
                      out, <<[id |-> id, flag |-> got.flag]>>)

HandleDeleteNote(cl, confirmed, id) ==
    IF ~confirmed
    THEN Refused("handleDeleteNote", cl, NoError)
    ELSE IF ~cl.isAuthenticated
    THEN Refused("handleDeleteNote", cl, MsgLogInToDelete)
    ELSE \E e1 \in OwnershipEnvs :
         LET got == verifyNoteOwnership(session, now, notes, e1.f1, e1.fault, id) IN
         IF ~got.flag
         THEN NotOwned("handleDeleteNote", cl, e1, id, got, MsgOnlyDeleteOwn)
         ELSE \E e \in EnvsFor(ValidateId(id)) :
              LET out == deleteNote(session, now, notes, nextId, e.f1, e.f2,
                                    e.fault, id)
              IN
              Handled("handleDeleteNote", cl,
                      Call("deleteNote", id, EmptyStr, EmptyStr, e, out, FALSE, <<>>),
                      out, <<[id |-> id, flag |-> got.flag]>>)

(* What NoteModal passes to onSave: a trimmed title that is not empty and  *)
(* has at most 100 characters, the title input having maxLength 100, and a *)
(* trimmed content of any length.                                          *)
DashInputs == {<<A1, B1>>, <<A1, Rep("b", MaxContentLen + 1)>>}

CreateNoteSubmitted ==
    /\ Idle
    /\ \E in \in DashInputs : HandleCreateNote(Closure, in[1], in[2])
    /\ UNCHANGED <<modal, saves>>

UpdateNoteSubmitted ==
    /\ Idle
    /\ \E id \in IdInputs, in \in DashInputs :
           HandleUpdateNote(Closure, id, in[1], in[2])
    /\ UNCHANGED <<modal, saves>>

DeleteNoteClicked ==
    /\ Idle
    /\ \E confirmed \in BOOLEAN, id \in IdInputs :
           HandleDeleteNote(Closure, confirmed, id)
    /\ UNCHANGED <<modal, saves>>

(* The session manager under the Dashboard: Google sign-in, the            *)
(* notification handler, the sign-out button and a sign-out elsewhere.     *)
DashSignIn ==
    /\ Idle
    /\ \E u \in Users, fault \in AuthFaults : SignInWithGoogle(u, fault)

DashAuthStateChange ==
    /\ last = NoCall
    /\ \E fault \in AuthFaults : OnAuthStateChange(fault)

DashSignOut ==
    /\ Idle
    /\ \E fault \in AuthFaults : SignOut(fault)

DashSignedOutElsewhere ==
    /\ last = NoCall
    /\ PushSignedOut

(* The records of the handler just run are dropped. *)
DashForget ==
    /\ last # NoCall \/ done # NoDone
    /\ last' = NoCall
    /\ done' = NoDone
    /\ UNCHANGED <<notes, nextId, session, now, user, isAuthenticated, events,
                   otps, pending, uiVars>>

DashNext ==
    \/ LoadNotes
    \/ CreateNoteSubmitted
    \/ UpdateNoteSubmitted
    \/ DeleteNoteClicked
    \/ DashSignIn
    \/ DashAuthStateChange
    \/ DashSignOut
    \/ DashSignedOutElsewhere
    \/ Tick
    \/ DashForget

DashSpec == Init /\ [][DashNext]_vars

(* The Dashboard's create, update and delete handlers within the lifetime  *)
(* of the sessions, each sign-in made from the signed-out state.           *)
OwnSignIn ==
    /\ Idle
    /\ session = NoSession
    /\ \E u \in Users, fault \in AuthFaults : SignInWithGoogle(u, fault)

OwnNext ==
    \/ CreateNoteSubmitted
    \/ UpdateNoteSubmitted
    \/ DeleteNoteClicked
    \/ OwnSignIn
    \/ DashAuthStateChange
    \/ DashSignOut
    \/ DashForget

OwnSpec == Init /\ [][OwnNext]_vars

----------------------------------------------------------------------------
(* The note modal over the Dashboard's handlers.                           *)

MaxSaves == 2       \* handleSave calls that may await their onSave

(* What is typed into the title input, which has maxLength 100, and the    *)
(* content textarea.                                                       *)
ModalTexts ==
    { <<Cat(Rep(SP, 1), Cat(A1, Rep(SP, 1))), B1>>,
      <<Rep(SP, 2), B1>>,
      <<A1, Rep("b", MaxContentLen + 1)>> }

(* The effect on [note, isOpen]: title and content are those of the note,  *)
(* or empty when there is none.                                            *)
ModalFor(isOpen, note, isSaving) ==
    [isOpen |-> isOpen, note |-> note,
     title |-> IF note # <<>> THEN note[1].title ELSE EmptyStr,
     content |-> IF note # <<>> THEN note[1].content ELSE EmptyStr,
     isSaving |-> isSaving]

(* The New Note button: setEditingNote(null); setIsModalOpen(true). *)
OpenNewNote ==
    /\ Idle
    /\ isAuthenticated
    /\ ~modal.isOpen
    /\ modal' = ModalFor(TRUE, <<>>, modal.isSaving)
    /\ UNCHANGED <<notes, nextId, session, now, last, authVars,
                   localNotes, saves, otpPage, asked>>

(* The edit button of a note of the list. *)
OpenEditNote ==
    /\ Idle
    /\ isAuthenticated
    /\ ~modal.isOpen
    /\ \E i \in DOMAIN localNotes :
           modal' = ModalFor(TRUE, <<localNotes[i]>>, modal.isSaving)
    /\ UNCHANGED <<notes, nextId, session, now, last, authVars,
                   localNotes, saves, otpPage, asked>>

(* The user types a title and a content. *)
ModalTyped ==
    /\ Idle
    /\ modal.isOpen
    /\ \E in \in ModalTexts :
           /\ <<modal.title, modal.content>> # in
           /\ modal' = [modal EXCEPT !.title = in[1], !.content = in[2]]
    /\ UNCHANGED <<notes, nextId, session, now, last, authVars,
                   localNotes, saves, otpPage, asked>>

(* handleSave up to its `await onSave(...)`: nothing for a blank title;    *)
(* otherwise isSaving is set and onSave is called with the note's id, or   *)
(* '', and the trimmed title and content. The call is held with the        *)
(* editingNote and the closure of the Dashboard's render.                  *)
HandleSave ==
    /\ Idle
    /\ Trim(modal.title) # EmptyStr
    /\ Len(saves) < MaxSaves
    /\ modal' = [modal EXCEPT !.isSaving = TRUE]
    /\ saves' = Append(saves,
                       [editingNote |-> modal.note,
                        id |-> IF modal.note # <<>> THEN modal.note[1].id ELSE EmptyId,
                        title |-> Trim(modal.title),
                        content |-> Trim(modal.content),
                        cl |-> Closure])
    /\ UNCHANGED <<notes, nextId, session, now, last, authVars,
                   localNotes, otpPage, asked>>

(* The Save button, disabled while the title is blank or isSaving is set. *)
SaveClicked ==
    /\ modal.isOpen
    /\ ~(Trim(modal.title) = EmptyStr \/ modal.isSaving)
    /\ HandleSave

(* handleKeyDown with Ctrl+Enter *)
CtrlEnterPressed ==
    /\ modal.isOpen
    /\ HandleSave

(* handleClose: the Cancel and close buttons, the backdrop, Escape. *)
HandleClose ==
    /\ Idle
    /\ modal.isOpen
    /\ modal' = ModalFor(FALSE, <<>>, modal.isSaving)
    /\ UNCHANGED <<notes, nextId, session, now, last, authVars,
                   localNotes, saves, otpPage, asked>>

(* The handler rejected: the signOut of its catch block threw. *)
Rejected(d) == d.signOut # <<>> /\ d.signOut[1].err # NoError

(* What the platform may answer to a request of a save instead of serving  *)
(* it.                                                                     *)
ModalFaults == {ErrNetwork, ErrJwtExpired}

(* The rest of a handleSave: onSave runs the Dashboard's handler, for an   *)
(* update when there was an editingNote and a create otherwise; when the   *)
(* handler resolves onClose is called; isSaving is reset in any case.      *)
SaveSettled ==
    /\ Idle
    /\ \E i \in DOMAIN saves :
       LET call == saves[i] IN
       /\ IF call.editingNote # <<>>
          THEN HandleUpdateNote(call.cl, call.id, call.title, call.content)
          ELSE HandleCreateNote(call.cl, call.title, call.content)
       /\ last'.quiet \/ last'.remote \in ModalFaults
       /\ modal' = IF Rejected(done')
                   THEN [modal EXCEPT !.isSaving = FALSE]
                   ELSE ModalFor(FALSE, <<>>, FALSE)
       /\ saves' = [j \in 1..(Len(saves) - 1) |-> IF j < i THEN saves[j] ELSE saves[j + 1]]

(* The identities that use the modal. *)
ModalUsers == {"A"}

(* The user signs in when the platform holds no session. *)
ModalSignIn ==
    /\ Idle
    /\ session = NoSession
    /\ \E u \in ModalUsers : SignInWithGoogle(u, NoError)

ModalNext ==
    \/ OpenNewNote
    \/ OpenEditNote
    \/ ModalTyped
    \/ SaveClicked
    \/ CtrlEnterPressed
    \/ HandleClose
    \/ SaveSettled
    \/ ModalSignIn
    \/ DashAuthStateChange
    \/ DashForget

ModalSpec == Init /\ [][ModalNext]_vars

----------------------------------------------------------------------------
(* The OTP verification page over the session manager.                     *)

MsgIncompleteCode == <<"Please", "enter", "a", "complete", "6-digit", "code">>
MsgOnlyNumbers == <<"OTP", "must", "contain", "only", "numbers">>
MsgInvalidCode == <<"Invalid", "verification", "code.", "Please", "try", "again.">>
MsgPasteInvalid == <<"Please", "paste", "a", "valid", "6-digit", "code">>
MsgResendFailed == <<"Failed", "to", "resend", "code.", "Please", "try", "again.">>

Digits == {"0", "1", "2", "3", "4", "5", "6", "7", "8", "9"}

(* /^\d*$/ for the value of a cell, which has maxLength 1 *)
OnlyDigits(value) == value = "" \/ value \in Digits

(* otp.join('') *)
Join(cells) ==
    cells[1] \o cells[2] \o cells[3] \o cells[4] \o cells[5] \o cells[6]

(* What a cell's input may hold after a key stroke. *)
CellValues == {"", "1", "x"}

(* What may be pasted, character by character. *)
PasteTexts ==
    { <<"1", "1", "1", "1", "1", "1", "1">>,
      <<"1", "-", "1", "1", " ", "1", "1", "1">>,
      <<"1", "x", "1">>,
      <<"x", "y">> }

(* text.replace(/\D/g, '').slice(0, 6), as the cells it fills *)
Pasted(text) ==
    LET digits == SelectSeq(text, LAMBDA c : c \in Digits)
        kept == SubSeq(digits, 1, IF Len(digits) < OtpCells THEN Len(digits) ELSE OtpCells)
    IN
    [i \in 1..OtpCells |-> IF i <= Len(kept) THEN kept[i] ELSE ""]

SubmitErrorNone(cells) == NoError

(* The checks of handleSubmit: the error it sets, NoError when it goes on  *)
(* to verifyOTP.                                                           *)
SubmitError(cells) ==
    IF Len(Join(cells)) # OtpCells THEN MsgIncompleteCode
    ELSE IF ~(\A i \in 1..OtpCells : cells[i] \in Digits) THEN MsgOnlyNumbers
    ELSE NoError

CountdownTickFast(prev) == IF prev > 1 THEN prev - 2 ELSE 0

(* setCountdown(prev => prev > 0 ? prev - 1 : 0) *)
CountdownTick(prev) == IF prev > 0 THEN prev - 1 ELSE 0

pageFrame == <<notes, nextId, session, now, last, localNotes, modal, saves, asked>>

PageOpen == otpPage.email # "" /\ ~otpPage.navigated

(* The page is mounted with the email a signUp was made for. *)
OpenOtpPage ==
    /\ done.op = "signUp"
    /\ done.err = NoError
    /\ otpPage = NoOtpPage
    /\ otpPage' = OtpPageFor(done.email)
    /\ done' = NoDone
    /\ UNCHANGED <<pageFrame, user, isAuthenticated, events, otps, pending>>

(* The signUp that leads to the page. *)
PageSignUp ==
    /\ otpPage = NoOtpPage
    /\ \E email \in Emails, fault \in AuthFaults : SignUp(email, fault)

(* handleChange: a value that is not made of digits is ignored *)
HandleChange ==
    /\ PageOpen
    /\ \E index \in 1..OtpCells, value \in CellValues :
           /\ OnlyDigits(value)
           /\ otpPage' = [otpPage EXCEPT !.otp[index] = value, !.otpError = NoError]
    /\ UNCHANGED <<pageFrame, authVars>>

HandlePaste ==
    /\ PageOpen
    /\ \E text \in PasteTexts :
           otpPage' = IF \A i \in 1..OtpCells : Pasted(text)[i] = ""
                      THEN [otpPage EXCEPT !.otpError = MsgPasteInvalid]
                      ELSE [otpPage EXCEPT !.otp = Pasted(text), !.otpError = NoError]
    /\ UNCHANGED <<pageFrame, authVars>>

(* handleSubmit up to its `await verifyOTP(email, otpString)`, no          *)
(* verification being under way.                                           *)
HandleSubmit ==
    /\ PageOpen
    /\ otpPage.verifying = <<>>
    /\ otpPage' = IF SubmitError(otpPage.otp) # NoError
                  THEN [otpPage EXCEPT !.otpError = SubmitError(otpPage.otp)]
                  ELSE [otpPage EXCEPT !.verifying =
                            <<[code |-> Join(otpPage.otp), cells |-> otpPage.otp]>>]
    /\ UNCHANGED <<pageFrame, authVars>>

(* The verifyOTP the page awaits, made by the session manager. *)
PageVerifyOTP ==
    /\ PageOpen
    /\ otpPage.verifying # <<>>
    /\ \E fault \in AuthFaults :
           VerifyOTP(otpPage.email, otpPage.verifying[1].code, fault)

(* The rest of handleSubmit: navigate('/dashboard') when verifyOTP         *)
(* returned; the error and six empty cells when it threw.                  *)
SubmitSettled ==
    /\ PageOpen
    /\ otpPage.verifying # <<>>
    /\ done.op = "verifyOTP"
    /\ otpPage' = IF done.err = NoError
                  THEN [otpPage EXCEPT !.verifying = <<>>, !.navigated = TRUE]
                  ELSE [otpPage EXCEPT !.verifying = <<>>,
                                       !.otpError = MsgInvalidCode,
                                       !.otp = [i \in 1..OtpCells |-> ""]]
    /\ done' = NoDone
    /\ UNCHANGED <<pageFrame, user, isAuthenticated, events, otps, pending>>

OtpNext ==
    \/ PageSignUp
    \/ OpenOtpPage
    \/ HandleChange
    \/ HandlePaste
    \/ HandleSubmit
    \/ PageVerifyOTP
    \/ \E fault \in AuthFaults : ValidateIssued(fault)
    \/ SubmitSettled

OtpSpec == Init /\ [][OtpNext]_vars

(* The timer of the page: one second passes. *)
SecondPassed ==
    /\ PageOpen
    /\ otpPage' = [otpPage EXCEPT
           !.countdown = CountdownTick(otpPage.countdown),
           !.sinceResend = IF otpPage.sinceResend = <<>> THEN <<>>
                           ELSE <<[otpPage.sinceResend[1] EXCEPT
                                      !.secs = IF @ < CountdownStart THEN @ + 1 ELSE @]>>]
    /\ otpPage' # otpPage
    /\ UNCHANGED <<pageFrame, authVars>>

(* The resend button, disabled while countdown > 0 or isResending, and     *)
(* handleResendOTP up to its `await resendOTP(email)`.                     *)
HandleResendOTP ==
    /\ PageOpen
    /\ ~(otpPage.countdown > 0 \/ otpPage.isResending)
    /\ ~(otpPage.countdown > 0)
    /\ otpPage' = [otpPage EXCEPT !.isResending = TRUE,
                                  !.sinceResend =
                                      <<[secs |-> 0, ok |-> FALSE,
                                         before |-> IF otpPage.sinceResend = <<>> THEN <<>>
                                                    ELSE <<[apart |-> otpPage.sinceResend[1].secs
                                                                          >= CountdownStart,
                                                            ok |-> otpPage.sinceResend[1].ok]>>]>>]
    /\ UNCHANGED <<pageFrame, authVars>>

(* The resendOTP the page awaits, made by the session manager. *)
PageResendOTP ==
    /\ PageOpen
    /\ otpPage.isResending
    /\ \E fault \in AuthFaults : ResendOTP(otpPage.email, fault)

(* The rest of handleResendOTP: the countdown starts again when resendOTP  *)
(* returned, the error is set when it threw; isResending is reset.         *)
ResendSettled ==
    /\ PageOpen
    /\ otpPage.isResending
    /\ done.op = "resendOTP"
    /\ otpPage' = IF done.err = NoError
                  THEN [otpPage EXCEPT !.countdown = CountdownStart,
                                       !.otpError = NoError,
                                       !.isResending = FALSE,
                                       !.sinceResend[1].ok = TRUE]
                  ELSE [otpPage EXCEPT !.otpError = MsgResendFailed,
                                       !.isResending = FALSE]
    /\ done' = NoDone
    /\ UNCHANGED <<pageFrame, user, isAuthenticated, events, otps, pending>>

ResendNext ==
    \/ PageSignUp
    \/ OpenOtpPage
    \/ SecondPassed
    \/ HandleResendOTP
    \/ PageResendOTP
    \/ ResendSettled
    \/ ForgetDone

ResendSpec == Init /\ [][ResendNext]_vars

----------------------------------------------------------------------------
(* Properties. *)

Range(q) == {q[i] : i \in 1..Len(q)}

Ok(c) == c.err = NoError

(* The call was made with a valid session and the platform answered it. *)
Served(c) == c.valid /\ c.quiet

OwnedBefore(c) == {n \in Before(c) : n.id = c.id /\ n.user_id = c.uid}

(* C1: an updateNote or deleteNote made under the session of one identity  *)
(* leaves every note of another identity in the table exactly as it was.   *)
C1_OtherIdentityUntouched ==
    last.op \in {"updateNote", "deleteNote"} =>
        \A n \in Before(last) : n.user_id # last.uid => n \in notes

C1_Witness ==
    /\ last.op \in {"updateNote", "deleteNote"}
    /\ Served(last)
    /\ last.reqs # {}
    /\ \E n \in notes : n.id = last.id /\ n.user_id # last.uid

(* C2: a facade call sends a request to the notes table only when a        *)
(* session exists whose expiry time is not in the past.                    *)
C2_RequestsNeedLiveSession == last.reqs # {} => last.valid

C2_Witness ==
    /\ last.op \in {"getNotes", "createNote", "updateNote", "deleteNote",
                    "verifyNoteOwnership"}
    /\ last.uid \in Users
    /\ ~last.valid
    /\ last.reqs = {}

(* C3: deleteNote of an existing note of the caller, with a valid session, *)
(* removes exactly that note and returns without an error.                 *)
C3_DeleteReturns ==
    (last.op = "deleteNote" /\ Served(last) /\ OwnedBefore(last) # {}) =>
        /\ last.removed = OwnedBefore(last)
        /\ last.added = {}
        /\ Ok(last)

(* The call that a getNotes or second deleteNote follows. *)
Prior == last.after[1]

ListedAfter(op) ==
    /\ last.op = "getNotes"
    /\ Ok(last)
    /\ last.after # <<>>
    /\ Prior.op = op

(* The notes a getNotes returns that the caller did not have before the    *)
(* call it follows.                                                        *)
NewlyListed == {r \in Range(last.ret) : r \notin Visible(Before(Prior), Prior.uid)}

(* C4, as stated: after a createNote that returned, getNotes lists exactly *)
(* one note that was not there before, with the title and content passed   *)
(* to createNote and the caller's identity as user_id.                     *)
C4_CreateThenListAsPassed ==
    ListedAfter("createNote") =>
        /\ Cardinality(NewlyListed) = 1
        /\ \A r \in NewlyListed :
              /\ r.title = Prior.title
              /\ r.content = Prior.content
              /\ r.user_id = last.uid

(* C4, amended: after a createNote that returned, getNotes lists exactly   *)
(* one note that was not there before; its title and content are the       *)
(* values passed to createNote with leading and trailing whitespace        *)
(* removed, and its user_id is the caller's identity.                      *)
C4_CreateThenListTrimmed ==
    ListedAfter("createNote") =>
        /\ Cardinality(NewlyListed) = 1
        /\ \A r \in NewlyListed :
              /\ r.title = Trim(Prior.title)
              /\ r.content = Trim(Prior.content)
              /\ r.user_id = last.uid

C4_Witness ==
    /\ ListedAfter("createNote")
    /\ Prior.title # Trim(Prior.title)
    /\ Len(last.ret) = 2

(* What the claim C5 calls invalid input. *)
BadTitleOrContent(title, content) ==
    \/ Trim(title) = EmptyStr
    \/ StrLen(title) > MaxTitleLen
    \/ StrLen(content) > MaxContentLen

(* C5, as stated: createNote and updateNote raise a validation error       *)
(* exactly when the title is empty or blank, the title has more than 100   *)
(* characters or the content more than 10,000; then no request is sent and *)
(* the table is unchanged.                                                 *)
C5_ValidationByTitleAndContent ==
    last.op \in {"createNote", "updateNote"} =>
        /\ last.err \in ValidationMsgs <=> BadTitleOrContent(last.title, last.content)
        /\ BadTitleOrContent(last.title, last.content) =>
              last.reqs = {} /\ last.added = {} /\ last.removed = {}

(* C5, amended: createNote and updateNote raise a validation error exactly *)
(* when the title is empty or blank, the title has more than 100           *)
(* characters, the content has more than 10,000, or, for updateNote, the   *)
(* note id is empty; then no request is sent and the table is unchanged.   *)
BadInput(c) ==
    \/ BadTitleOrContent(c.title, c.content)
    \/ c.op = "updateNote" /\ c.id = EmptyId

C5_ValidationExact ==
    last.op \in {"createNote", "updateNote"} =>
        /\ last.err \in ValidationMsgs <=> BadInput(last)
        /\ BadInput(last) =>
              last.reqs = {} /\ last.added = {} /\ last.removed = {}

C5_Witness ==
    /\ last.op = "createNote"
    /\ StrLen(last.title) = MaxTitleLen
    /\ StrLen(last.content) = MaxContentLen
    /\ Ok(last)
    /\ last.added # {}

(* C6: an updateNote with valid input and a valid session whose id matches *)
(* no row of the caller (no such note, or a note of another identity) is   *)
(* refused with one and the same error, and changes nothing.               *)
C6_UpdateNoRowRefused ==
    (/\ last.op = "updateNote"
     /\ Served(last)
     /\ ~BadInput(last)
     /\ OwnedBefore(last) = {}) =>
        /\ last.err = MsgAccessDenied
        /\ last.added = {}
        /\ last.removed = {}

C6_Witness ==
    /\ last.op = "updateNote"
    /\ Served(last)
    /\ ~BadInput(last)
    /\ \E n \in notes : n.id = last.id /\ n.user_id # last.uid
    /\ last.err = MsgAccessDenied

(* C7: a deleteNote that follows a deleteNote of the same id which removed *)
(* the row is refused as not found and changes nothing.                    *)
C7_SecondDeleteNotFound ==
    (last.op = "deleteNote" /\ Served(last) /\ last.after # <<>>) =>
        /\ last.err = MsgAccessDenied
        /\ last.added = {}
        /\ last.removed = {}

(* C8: getNotes under a valid session returns exactly the caller's notes,  *)
(* each once, by updated_at descending, and an empty list when there are   *)
(* none.                                                                   *)
C8_ListOwnNotes ==
    (last.op = "getNotes" /\ Served(last)) =>
        LET own == {n \in notes : n.user_id = last.uid} IN
        /\ Ok(last)
        /\ Range(last.ret) = own
        /\ Len(last.ret) = Cardinality(own)
        /\ \A i, j \in 1..Len(last.ret) :
              i < j => last.ret[i].updated_at >= last.ret[j].updated_at

C8_Witness ==
    /\ last.op = "getNotes"
    /\ Served(last)
    /\ Len(last.ret) >= 1
    /\ \E n \in notes : n.user_id # last.uid

(* C9, as stated: after an updateNote that returned, getNotes shows the    *)
(* note with the title and content passed to updateNote and an updated_at  *)
(* greater than its created_at.                                            *)
C9_UpdateThenListAsPassed ==
    ListedAfter("updateNote") =>
        \E r \in Range(last.ret) :
            /\ r.id = Prior.id
            /\ r.title = Prior.title
            /\ r.content = Prior.content
            /\ r.updated_at > r.created_at
            /\ \A old \in Prior.removed : r.updated_at > old.created_at

(* C9, amended: after an updateNote that returned, getNotes shows the note *)
(* with the title and content passed to updateNote, leading and trailing   *)
(* whitespace removed, and an updated_at greater than its created_at.      *)
C9_UpdateThenListTrimmed ==
    ListedAfter("updateNote") =>
        \E r \in Range(last.ret) :
            /\ r.id = Prior.id
            /\ r.title = Trim(Prior.title)
            /\ r.content = Trim(Prior.content)
            /\ r.updated_at > r.created_at
            /\ \A old \in Prior.removed : r.updated_at > old.created_at

C9_Witness ==
    /\ ListedAfter("updateNote")
    /\ Prior.title # Trim(Prior.title)
    /\ \E old \in Prior.removed : old.title # Trim(Prior.title)

(* C10: an updateNote that returned replaced one row, the one with the id  *)
(* passed, keeping its id, user_id and created_at, and touched no other    *)
(* row; and no facade call changes the user_id of a row.                   *)
C10_UpdateFrame ==
    /\ (last.op = "updateNote" /\ Ok(last)) =>
          \E old \in last.removed, new \in last.added :
              /\ last.removed = {old}
              /\ last.added = {new}
              /\ old.id = last.id
              /\ new.id = old.id
              /\ new.user_id = old.user_id
              /\ new.created_at = old.created_at
    /\ \A b \in Before(last), n \in notes : b.id = n.id => b.user_id = n.user_id

C10_Witness ==
    /\ last.op = "updateNote"
    /\ Ok(last)
    /\ \E old \in last.removed : old.title # Trim(last.title)
    /\ \E n \in notes : n.id # last.id

FacadeOps == {"getNotes", "createNote", "updateNote", "deleteNote"}

(* The input of the call passes the facade's own validation. *)
InputAccepted(c) ==
    /\ c.op \in {"createNote", "updateNote"} => ~BadTitleOrContent(c.title, c.content)
    /\ c.op \in {"updateNote", "deleteNote"} => c.id # EmptyId

SessionMsgs == {MsgNoSession, MsgNoUser, MsgExpired}

(* C17: a facade operation called while the stored session is expired,     *)
(* the platform being ready to refresh it and to serve the request, does   *)
(* not fail for want of a session: it goes on to send its request.         *)
C17_ExpiredSessionRefreshed ==
    (/\ last.op \in FacadeOps
     /\ last.uid \in Users
     /\ ~last.valid
     /\ last.quiet
     /\ InputAccepted(last)) =>
        /\ last.err \notin SessionMsgs
        /\ last.reqs # {}

(* C19, as stated: a remote error with code PGRST301 or a message that     *)
(* mentions JWT is raised as the authentication error; otherwise one with  *)
(* code PGRST116 or a message that mentions RLS is raised as the           *)
(* access-denied error; every other error is raised with the remote        *)
(* message unchanged.                                                      *)
C19_TranslationKeepsMessage ==
    last.remote # NoError =>
        LET e == last.remote[1] IN
        IF e.code = "PGRST301" \/ Includes(e.message, "JWT")
        THEN last.err = MsgAuthFailed
        ELSE IF e.code = "PGRST116" \/ Includes(e.message, "RLS")
        THEN last.err = MsgAccessDenied
        ELSE last.err = e.message

(* C19, amended: as above, except that an error of the third kind whose    *)
(* message is empty is raised with the facade's generic message.           *)
C19_TranslationExact ==
    last.remote # NoError =>
        LET e == last.remote[1] IN
        IF e.code = "PGRST301" \/ Includes(e.message, "JWT")
        THEN last.err = MsgAuthFailed
        ELSE IF e.code = "PGRST116" \/ Includes(e.message, "RLS")
        THEN last.err = MsgAccessDenied
        ELSE IF e.message # <<>>
        THEN last.err = e.message
        ELSE last.err = MsgGeneric

C19_Witness ==
    /\ last.remote = ErrEmpty
    /\ last.err = MsgGeneric

C19_WitnessPrecedence ==
    /\ last.remote = ErrJwtNoRows
    /\ last.err = MsgAuthFailed

(* C20: verifyNoteOwnership never raises; it returns true exactly when the *)
(* session is valid, the platform answers and the table holds a note with  *)
(* that id whose user_id is the session's identity; and it changes neither *)
(* the table nor the session.                                              *)
C20_OwnershipCheck ==
    /\ [](last.op = "verifyNoteOwnership" =>
            /\ Ok(last)
            /\ last.flag <=> (Served(last) /\ OwnedBefore(last) # {})
            /\ last.added = {}
            /\ last.removed = {})
    /\ [][last'.op = "verifyNoteOwnership" =>
            notes' = notes /\ session' = session]_vars

C20_Witness ==
    /\ last.op = "verifyNoteOwnership"
    /\ last.flag
    /\ \E n \in notes : n.user_id # last.uid

SignedOut == user = NoUser /\ ~isAuthenticated

(* C11: when signOut has finished, user is null and isAuthenticated is     *)
(* false, also when the remote sign-out returned an error.                 *)
C11_SignOutClears == done.op = "signOut" => SignedOut

(* C12: a step of sign-in, OTP verification, the OAuth callback or the     *)
(* notification handler turns isAuthenticated from false to true only when *)
(* the handler's token validation returned true; and a handler run for a   *)
(* pushed session whose validation returned false ends with user null and  *)
(* isAuthenticated false.                                                  *)
C12_AuthenticatedOnlyValidated ==
    /\ [][(/\ ~isAuthenticated
           /\ isAuthenticated'
           /\ done'.op \in {"signIn", "verifyOTP", "signInWithGoogle",
                            "onAuthStateChange"}) =>
             (done'.op = "onAuthStateChange" /\ done'.validated)]_vars
    /\ []((/\ done.op = "onAuthStateChange"
           /\ done.pushed # NoSession
           /\ ~done.validated) => SignedOut)

C12_Witness ==
    /\ done.op = "onAuthStateChange"
    /\ done.pushed # NoSession
    /\ done.validated
    /\ ~done.authBefore
    /\ isAuthenticated
    /\ user = done.pushed[1].user

C12_WitnessRejected ==
    /\ done.op = "onAuthStateChange"
    /\ done.pushed # NoSession
    /\ ~done.validated
    /\ done.authBefore
    /\ session # NoSession
    /\ SignedOut

(* C13: signIn returns without an error only if the remote call issued a   *)
(* session and the token validation returned true; when the remote call    *)
(* issued a session and the validation returned false, signIn raises an    *)
(* error and user is null and isAuthenticated false, as they were when     *)
(* signIn began.                                                           *)
C13_SignInValidated ==
    done.op = "signIn" =>
        /\ done.err = NoError => (done.remoteOk /\ done.validated)
        /\ (done.remoteOk /\ ~done.validated /\ ~done.authBefore) =>
              (done.err # NoError /\ SignedOut)

(* C14: verifyOTP with the code issued to the email, unexpired, and        *)
(* answered by the platform, establishes a session whose identity has that *)
(* email; with any other code it raises an error, establishes no session   *)
(* and leaves the session, user and isAuthenticated as they were.          *)
C14_VerifyOTP ==
    done.op = "verifyOTP" =>
        /\ (done.codeGood /\ done.remoteOk) =>
              (done.issued # NoSession /\ EmailOf(done.issued[1].user) = done.email)
        /\ (done.codeGood /\ done.quiet) => done.remoteOk
        /\ ~done.codeGood =>
              /\ done.err # NoError
              /\ done.issued = NoSession
              /\ session = done.sessBefore
              /\ user = done.userBefore
              /\ isAuthenticated = done.authBefore

C14_Witness ==
    /\ done.op = "verifyOTP"
    /\ done.codeGood
    /\ done.err = NoError
    /\ session = done.issued
    /\ otps = {}

C14_WitnessExpired ==
    /\ done.op = "verifyOTP"
    /\ ~done.codeGood
    /\ done.quiet
    /\ done.code = CodeOf(done.email)
    /\ \E o \in otps : o.email = done.email /\ o.expires < now

(* C15: a run of the periodic check while a user is authenticated and the  *)
(* session has fewer than 300 seconds left, the platform answering,        *)
(* refreshes the token.                                                    *)
C15_IntervalRefreshes ==
    (/\ done.op = "tokenRefreshInterval"
     /\ done.authBefore
     /\ done.userBefore # NoUser
     /\ done.due
     /\ done.quiet) => done.refreshed

(* C16: a refreshSession that obtained no new token ends with user null    *)
(* and isAuthenticated false and raises an error; one that obtained a      *)
(* token ends with user the identity of the refreshed session and          *)
(* isAuthenticated true.                                                   *)
C16_RefreshSessionSignals ==
    done.op = "refreshSession" =>
        IF done.refreshed
        THEN user = done.issued[1].user /\ isAuthenticated
        ELSE SignedOut /\ done.err # NoError

DashOps == {"loadNotes", "handleCreateNote", "handleUpdateNote", "handleDeleteNote"}

(* The call failed because the token is missing, expired or rejected. *)
TokenFailure(c) ==
    \/ c.err \in SessionMsgs
    \/ c.err = MsgAuthFailed
    \/ (Len(c.err) >= 2 /\ SubSeq(c.err, 1, 2) = <<"Authentication", "error:">>)

(* C18: a Dashboard notes handler whose facade call failed calls signOut   *)
(* exactly when the failure is a missing, expired or rejected token.       *)
C18_TokenFailureForcesSignOut ==
    (/\ done.op \in DashOps
     /\ last.op \in FacadeOps
     /\ last.err # NoError) =>
        (done.signOut # <<>> <=> TokenFailure(last))

(* C23: every note in the table, each written by createNote or updateNote, *)
(* has a title of 1 to 100 characters without leading or trailing          *)
(* whitespace and a content of at most 10,000 characters.                  *)
C23_StoredNotesWellFormed ==
    \A n \in notes :
        /\ StrLen(n.title) >= 1
        /\ StrLen(n.title) <= MaxTitleLen
        /\ Trim(n.title) = n.title
        /\ StrLen(n.content) <= MaxContentLen

(* A note was stored from a title of the greatest length allowed, and      *)
(* another from a title padded with whitespace.                            *)
C23_Witness ==
    /\ last.op \in {"createNote", "updateNote"}
    /\ Ok(last)
    /\ last.added # {}
    /\ Trim(last.title) # last.title
    /\ \E n \in notes : StrLen(n.title) = MaxTitleLen /\ StrLen(n.content) = MaxContentLen

(* The call was made with no session, the platform answering normally. *)
NoSessionCall(c) ==
    /\ c.op \in {"createNote", "updateNote", "deleteNote"}
    /\ c.uid = NoUser
    /\ c.quiet

(* C24, as stated: createNote, updateNote and deleteNote called with no    *)
(* session fail with the session error whatever their arguments are, and   *)
(* send no request.                                                        *)
C24_SessionBeforeValidation ==
    NoSessionCall(last) => last.err = MsgNoSession /\ last.reqs = {}

(* C24, amended: createNote, updateNote and deleteNote called with no      *)
(* session send no request and leave the table alone; they fail with the   *)
(* validation error when their arguments fail validation and with the      *)
(* session error otherwise.                                                *)
C24_ValidationThenSession ==
    NoSessionCall(last) =>
        /\ last.reqs = {} /\ last.added = {} /\ last.removed = {}
        /\ IF InputAccepted(last)
           THEN last.err = MsgNoSession
           ELSE last.err \in ValidationMsgs

C24_Witness ==
    /\ NoSessionCall(last)
    /\ last.op = "deleteNote"
    /\ last.id = EmptyId
    /\ last.err = MsgIdRequired

C24_WitnessAccepted ==
    /\ NoSessionCall(last)
    /\ last.op = "updateNote"
    /\ InputAccepted(last)
    /\ last.err = MsgNoSession

(* C22: user and isAuthenticated are one slot that the last writer wins.   *)
(* A signOut that returns leaves it cleared, a refreshSession leaves in it *)
(* the identity of the refreshed session, or nothing when the refresh      *)
(* failed, and the notification handler                                    *)
(* leaves in it what the token validation it asked for said of the session *)
(* it was called with, whatever the platform holds by the time the answer  *)
(* arrives. (That a handler so overtaken by a signOut leaves               *)
(* isAuthenticated true with no session is the state C22_Witness.)         *)
C22_LastWriterWins ==
    [][/\ (done'.op = "signOut" /\ done' # done /\ done'.err = NoError) =>
              (user' = NoUser /\ ~isAuthenticated')
       /\ (done'.op = "refreshSession" /\ done' # done) =>
              /\ isAuthenticated' <=> done'.refreshed
              /\ user' = IF done'.refreshed THEN Uid(session') ELSE NoUser
       /\ (asked # <<>> /\ asked' = <<>>) =>
              /\ isAuthenticated' <=> asked[1].isValid
              /\ user' = IF asked[1].isValid THEN asked[1].pushed[1].user ELSE NoUser
      ]_vars

(* The answer to a handler called with a session (SIGNED_IN or             *)
(* TOKEN_REFRESHED) arrived after a signOut had returned and its           *)
(* SIGNED_OUT was delivered: isAuthenticated is true and the platform      *)
(* holds no session.                                                       *)
C22_Witness ==
    /\ done.op = "onAuthStateChange"
    /\ done.pushed # NoSession
    /\ done.validated
    /\ done.sessBefore = NoSession
    /\ ~done.authBefore
    /\ session = NoSession
    /\ isAuthenticated
    /\ user = done.pushed[1].user
    /\ events = <<>>

ListHandlers == {"handleCreateNote", "handleUpdateNote", "handleDeleteNote"}

(* The handler whose record is done has just sent an update or a delete. *)
SentWrite ==
    /\ last.op \in {"updateNote", "deleteNote"}
    /\ last.reqs \cap {"update", "delete"} # {}

(* C25: handleUpdateNote and handleDeleteNote send the update or delete of *)
(* a note only when isAuthenticated was true and verifyNoteOwnership for   *)
(* that note id returned true in the same invocation; when isAuthenticated *)
(* was false or the check returned false no update or delete is sent and   *)
(* the table and the local notes list are left as they were.               *)
C25_WriteOnlyAfterOwnershipCheck ==
    /\ []((done.op \in {"handleUpdateNote", "handleDeleteNote"} /\ SentWrite) =>
              /\ done.authBefore
              /\ done.own = <<[id |-> last.id, flag |-> TRUE]>>)
    /\ [][(/\ done'.op \in {"handleUpdateNote", "handleDeleteNote"}
           /\ done' # done
           /\ (~done'.authBefore \/ (done'.own # <<>> /\ ~done'.own[1].flag))) =>
              /\ last'.op \notin {"updateNote", "deleteNote"}
              /\ notes' = notes
              /\ localNotes' = localNotes]_vars

(* The ownership check returned false for a note the list shows and        *)
(* another identity owns.                                                  *)
C25_Witness ==
    /\ done.op = "handleDeleteNote"
    /\ done.authBefore
    /\ done.own # <<>> /\ ~done.own[1].flag
    /\ \E n \in notes : n.id = done.own[1].id /\ n.user_id # Uid(session)
    /\ \E i \in DOMAIN localNotes : localNotes[i].id = done.own[1].id

(* The update was sent after the check returned true. *)
C25_WitnessSent ==
    /\ done.op = "handleUpdateNote"
    /\ SentWrite
    /\ last.added # {}
    /\ done.own = <<[id |-> last.id, flag |-> TRUE]>>

(* What the list shows of a note and what the table holds of it. *)
Shown(n) == [id |-> n.id, title |-> n.title, content |-> n.content]

(* The list holds exactly the notes the table holds for the current        *)
(* identity, each once, with the same ids, titles and contents.            *)
ListMatchesStore ==
    /\ {Shown(n) : n \in Range(localNotes)} = {Shown(n) : n \in Visible(notes, user)}
    /\ Len(localNotes) = Cardinality(Visible(notes, user))

(* C26: a loadNotes that returned leaves the list holding exactly the      *)
(* notes of the current identity in the table, and each create, update or  *)
(* delete action of the Dashboard made from such a list under the session *)
(* of the signed-in identity, which it leaves signed in, leaves it so.     *)
C26_ListMirrorsStore ==
    /\ []((done.op = "loadNotes" /\ Ok(done) /\ last.op = "getNotes"
              /\ user = Uid(session)) => ListMatchesStore)
    /\ [][(/\ ListMatchesStore
           /\ user = Uid(session)
           /\ done'.op \in ListHandlers
           /\ done' # done
           /\ user' = user /\ session' = session) => ListMatchesStore']_vars

(* C29: the local notes list is ordered by updated_at descending. *)
C29_ListOrdered ==
    \A i, j \in DOMAIN localNotes :
        i < j => localNotes[i].updated_at >= localNotes[j].updated_at

(* The facade call of the handler just run created or updated a note. *)
Saved(c, d) ==
    /\ d.op \in {"handleCreateNote", "handleUpdateNote"}
    /\ d.err = NoError
    /\ c.op \in {"createNote", "updateNote"}
    /\ c.added # {}

(* C27: a save attempt that ends without the note having been created or  *)
(* updated leaves the modal open with the title and content as they were.  *)
C27_FailedSaveKeepsModal ==
    [][(Len(saves') < Len(saves) /\ modal.isOpen /\ ~Saved(last', done')) =>
          /\ modal'.isOpen
          /\ modal'.title = modal.title
          /\ modal'.content = modal.content]_vars

(* C28: at most one handleSave awaits its onSave at any time. *)
C28_OneSaveInFlight == Len(saves) <= 1

(* The code the page awaits a verification of is made of six cells, each   *)
(* one decimal digit.                                                      *)
SixDigits(v) ==
    /\ Len(v.code) = OtpCells
    /\ v.code = Join(v.cells)
    /\ \A i \in 1..OtpCells : v.cells[i] \in Digits

(* The verifyOTP calls the session manager has in hand or has answered. *)
VerifyCalls ==
    (IF done.op = "verifyOTP" THEN {done} ELSE {})
        \cup {pending[i] : i \in {j \in 1..Len(pending) : pending[j].op = "verifyOTP"}}

(* C30: under OtpSpec every verifyOTP call carries the code the page       *)
(* awaits, which is exactly six decimal digits; a handleSubmit with an     *)
(* empty cell, or with a joined code that is not six digits, sets an error *)
(* and makes no call; and when verifyOTP has failed the six cells are      *)
(* empty and an error message is shown.                                    *)
C30_VerifyOnlySixDigits ==
    /\ [](/\ otpPage.verifying # <<>> => SixDigits(otpPage.verifying[1])
          /\ \A c \in VerifyCalls :
                 /\ otpPage.verifying # <<>>
                 /\ c.code = otpPage.verifying[1].code
                 /\ c.email = otpPage.email)
    /\ [][(HandleSubmit
             /\ (\/ \E i \in 1..OtpCells : otpPage.otp[i] = ""
                 \/ Len(Join(otpPage.otp)) # OtpCells
                 \/ \E i \in 1..OtpCells : otpPage.otp[i] \notin Digits))
            => (/\ otpPage'.otpError # NoError
                /\ otpPage'.verifying = <<>>
                /\ VerifyCalls' = {})]_vars
    /\ [][(SubmitSettled /\ done.err # NoError)
            => (/\ \A i \in 1..OtpCells : otpPage'.otp[i] = ""
                /\ otpPage'.otpError = MsgInvalidCode
                /\ ~otpPage'.navigated)]_vars

(* A verification of six digits has failed: the cells are empty and the    *)
(* error is shown.                                                         *)
C30_Witness ==
    /\ otpPage.otpError = MsgInvalidCode
    /\ \A i \in 1..OtpCells : otpPage.otp[i] = ""
    /\ otpPage.verifying = <<>>

(* A submit with some cells filled and one empty has been refused. *)
C30_WitnessIncomplete ==
    /\ otpPage.otpError = MsgIncompleteCode
    /\ \E i \in 1..OtpCells : otpPage.otp[i] = ""
    /\ \E i \in 1..OtpCells : otpPage.otp[i] # ""
    /\ otpPage.verifying = <<>>
    /\ done = NoDone

(* A pasted text of more than six digits and other characters is being     *)
(* verified as its first six digits, and the page goes on to the dashboard. *)
C30_WitnessVerified == otpPage.navigated /\ session # NoSession

(* handleResendOTP issues its request in this step. *)
ResendIssued == ~otpPage.isResending /\ otpPage'.isResending

(* A resend request is issued only when the countdown has reached 0. *)
IssuedAtZero == [][ResendIssued => otpPage.countdown = 0]_vars

(* The countdown starts at 60, stays within 0..60, goes down by one with   *)
(* each second that passes while it is above 0, and changes otherwise only *)
(* back to 60 when a resend has succeeded.                                 *)
CountdownRuns ==
    /\ [](otpPage.countdown \in 0..CountdownStart)
    /\ [][(otpPage.email = "" /\ otpPage'.email # "")
              => otpPage'.countdown = CountdownStart]_vars
    /\ [][SecondPassed
              => otpPage'.countdown =
                     (IF otpPage.countdown = 0 THEN 0 ELSE otpPage.countdown - 1)]_vars
    /\ [][(otpPage.email # "" /\ otpPage'.countdown # otpPage.countdown)
              => \/ SecondPassed
                 \/ (ResendSettled /\ done.err = NoError
                       /\ otpPage'.countdown = CountdownStart)]_vars

(* The request before the last one issued, <<>> when there is none. *)
RequestBefore ==
    IF otpPage.sinceResend = <<>> THEN <<>> ELSE otpPage.sinceResend[1].before

C21_WitnessRetry ==
    /\ otpPage.isResending
    /\ RequestBefore # <<>>
    /\ ~RequestBefore[1].ok
    /\ ~RequestBefore[1].apart

====
